---------------------------- MODULE Spec2Model ----------------------------
(***************************************************************************)
(* ATMOS proof-of-authority consensus engine (go-aerum, consensus/atmos).  *)
(*                                                                         *)
(* The engine's state is its two stores of snapshots (the in-memory cache  *)
(* `recents` and the database `db`), its signing credential and the chain  *)
(* of headers it reads through ChainReader.  Headers carry their           *)
(* extra-data as real byte strings (32 bytes of vanity, 20 bytes per       *)
(* signer, 65 bytes of seal); an address is held as the number its 20      *)
(* bytes spell.                                                            *)
(***************************************************************************)
EXTENDS Integers, Sequences, FiniteSets, TLC

(***************************************************************************)
(* Program constants.                                                      *)
(***************************************************************************)
extraVanity == 32
extraSeal == 65
AddressLength == 20
diffInTurn == 2
diffNoTurn == 1
ImmutabilityThreshold == 90000

(***************************************************************************)
(* Bounds of the model.                                                    *)
(***************************************************************************)
\* Key pairs 1..NumAddr exist; the address of key k is the number k.
NumAddr == 4
\* The chain grows to at most this height.
MaxHeight == 3
\* config.Epoch: every Epoch-th block is a checkpoint.
Epoch == 2
\* config.Period: minimal distance in seconds between two blocks.
Period == 1
\* The latest clock reading: late enough for a chain of MaxHeight blocks.
MaxTime == MaxHeight * Period + 1

\* The largest integer a 32-bit model integer holds stands for 2^64 - 1.
MaxUint64 == 2147483646 + 1

(***************************************************************************)
(* Bytes, addresses, signatures.                                           *)
(***************************************************************************)
Zeros(n) == [i \in 1..n |-> 0]

\* A common.Address is held as the number its 20 bytes spell, big-endian.
Addr(k) == k

ZeroAddress == 0

Addresses == 1..NumAddr

\* The 20 bytes of an address, as copied into extra-data (signer[:]).
AddrBytes(a) ==
    [i \in 1..AddressLength |->
        IF AddressLength - i > 3 THEN 0 ELSE (a \div (256 ^ (AddressLength - i))) % 256]

\* The address 20 bytes spell, as copied out of extra-data.
BytesAddr(bytes) ==
    LET F[i \in 0..AddressLength] == IF i = 0 THEN 0 ELSE F[i - 1] * 256 + bytes[i]
    IN  F[AddressLength]

\* The 65-byte signature made with key k (k = 0: bytes no key produced).
Sig(k) == [i \in 1..extraSeal |-> IF i = 1 THEN k ELSE 0]

\* bytes.Compare on two addresses: byte strings of one length sort as the
\* big-endian numbers they spell.
AddrLess(a, b) == a < b

Concat(ss) ==
    LET F[i \in 0..Len(ss)] == IF i = 0 THEN <<>> ELSE F[i - 1] \o ss[i]
    IN  F[Len(ss)]

\* A value computed once and handed to the expression that uses it.
With(v, Op(_)) == CHOOSE r \in {Op(x) : x \in {v}} : TRUE

\* uint64 subtraction, wrapping below zero.
USub(a, b) == IF a >= b THEN a - b ELSE MaxUint64 - (b - a) + 1

(***************************************************************************)
(* Headers.  Number = NoNumber and Difficulty = NoDifficulty are the nil   *)
(* pointers of the Go struct.                                              *)
(***************************************************************************)
NoNumber == 0 - 1
NoTime == 0 - 1
NoDifficulty == 0 - 1
ZeroHash == <<>>
EmptyUncleHash == "emptyUncles"
Nil == [nil |-> TRUE]
OK == "ok"

\* A byte string written without its zero bytes: its length and the bytes
\* that are not zero, each with its place.  Distinct strings differ in it.
Digest(bytes) ==
    <<Len(bytes), {<<i, bytes[i]>> : i \in {j \in DOMAIN bytes : bytes[j] # 0}}>>

\* header.Hash(): a collision-free hash of all fields, seal included.  Root
\* stands for the fields the engine never reads (Root, TxHash, ReceiptHash,
\* Bloom, GasLimit, GasUsed).
Hash(h) ==
    <<h.Number, h.ParentHash, h.Time, h.Difficulty, h.Coinbase,
      Digest(h.Extra), h.MixDigest, h.UncleHash, h.Nonce, h.Root>>


VARIABLES
    chain,       \* the canonical chain the ChainReader serves, genesis first
    recents,     \* a.recents: the in-memory snapshots, one per hash
    db,          \* a.db: the persisted snapshots, one per hash
    signer,      \* a.signer
    now,         \* time.Now().Unix()
    lastOp,      \* the engine call that ran last
    lastHeader,  \* its header argument
    lastErr,     \* its result
    lastSnap,    \* the parent snapshot that call judged the header against, or Nil
    composers,   \* the composer list the governance contract holds
    aconfig,     \* a.config: the Period and the Epoch of the chain
    mpc,         \* the miner: how far it is with the block it works on
    work,        \* the header the miner works on, or Nil
    prepSigner,  \* a.signer as Prepare read it
    sealSigner,  \* a.signer as Seal read it
    signedHash,  \* the seal hash of the header handed to the signing function
    credited,    \* the address accumulateRewards credited for the block, or Nil
    timer,       \* Seal: when the waiter started and the delay it waits for
    stopAt,      \* Seal: when the stop channel was closed, or NoTime
    sink,        \* Seal: the blocks the waiter has put on the results channel
    batch,       \* VerifyHeaders: the headers of the batch
    bpc,         \* VerifyHeaders: the state of the producer goroutine
    bi,          \* VerifyHeaders: the index of the header the producer verifies next
    pending,     \* VerifyHeaders: the result the producer holds for the select
    results,     \* VerifyHeaders: the buffered results channel
    received,    \* VerifyHeaders: what the caller has read from the channel
    aborted,     \* VerifyHeaders: the caller has closed the abort channel
    bans,        \* what the governance contract answers during the batch
    recents0,    \* a.recents when the batch was handed in
    db0,         \* a.db when the batch was handed in
    call,        \* a function called on its own: its name, its arguments, its result
    lock,        \* a.lock: whether a writer holds it, how many readers hold it
    signFn,      \* a.signFn
    threads      \* calls that run side by side: the position and locals of each

(***************************************************************************)
(* Header codec and seal hash.                                             *)
(***************************************************************************)
\* encodeSigHeader: the RLP list of every field, Extra without its last 65
\* bytes; slicing a shorter Extra panics.
encodeSigHeaderShortSeal(h) ==
    IF Len(h.Extra) < extraSeal
    THEN <<"panic">>
    ELSE <<h.ParentHash, h.UncleHash, h.Coinbase, h.Root, h.Difficulty,
           h.Number, h.Time, SubSeq(h.Extra, 1, Len(h.Extra) - extraSeal + 1),
           h.MixDigest, h.Nonce>>

encodeSigHeader(h) ==
    IF Len(h.Extra) < extraSeal
    THEN <<"panic">>
    ELSE <<h.ParentHash, h.UncleHash, h.Coinbase, h.Root, h.Difficulty,
           h.Number, h.Time, SubSeq(h.Extra, 1, Len(h.Extra) - extraSeal),
           h.MixDigest, h.Nonce>>

\* SealHash: Keccak-256 of that encoding, taken as collision-free.
SealHash(h) == encodeSigHeader(h)

\* AtmosRLP: the bytes handed to the signing function.
AtmosRLP(h) == encodeSigHeader(h)

\* crypto.Ecrecover followed by Keccak256(pubkey[1:])[12:]: the address of the
\* key that made the signature; bytes that no key produced fail to recover.
CryptoEcrecover(hash, signature) ==
    IF signature[1] \in 1..NumAddr
    THEN [err |-> OK, addr |-> Addr(signature[1])]
    ELSE [err |-> "errRecoveryFailed", addr |-> ZeroAddress]

\* ecrecover(header, sigcache).  The signature cache maps a header hash to the
\* address this function computes for it, so it never changes a result.
ecrecover(h) ==
    IF Len(h.Extra) < extraSeal
    THEN [err |-> "errMissingSignature", addr |-> ZeroAddress]
    ELSE CryptoEcrecover(SealHash(h),
                         SubSeq(h.Extra, Len(h.Extra) - extraSeal + 1, Len(h.Extra)))

(***************************************************************************)
(* Snapshot (snapshot.go).                                                 *)
(***************************************************************************)
\* newSnapshot: the given signers, no recent signer.
newSnapshot(number, hash, signers) ==
    [Number |-> number, Hash |-> hash,
     Signers |-> {signers[i] : i \in DOMAIN signers},
     Recents |-> {}]

\* Snapshot.signers(): the signers in ascending byte order.
SortedSigners(S) ==
    LET n == Cardinality(S)
        rank(a) == Cardinality({b \in S : AddrLess(b, a)})
    IN  [i \in 1..n |-> CHOOSE a \in S : rank(a) = i - 1]

\* Snapshot.inturn(number, signer).
inturn(snap, number, a) ==
    LET s == SortedSigners(snap.Signers)
    IN  /\ Len(s) > 0
        /\ s[(number % Len(s)) + 1] = a

\* len(snap.Signers)/2 + 1
Limit(snap) == (Cardinality(snap.Signers) \div 2) + 1

\* The bytes a header carries between vanity and seal.
SignerSegmentOf(extra) == SubSeq(extra, extraVanity + 1, Len(extra) - extraSeal)

\* The signer list a checkpoint header carries between vanity and seal.
ExtraSigners(extra) ==
    LET n == (Len(extra) - extraVanity - extraSeal) \div AddressLength
    IN  [i \in 1..n |->
            BytesAddr(SubSeq(extra, extraVanity + (i - 1) * AddressLength + 1,
                                    extraVanity + i * AddressLength))]

\* Application of a header of number n: the recent signers that stay, those
\* with a key above n - limit.
pruneRecentsLate(snap, n) == {e \in snap.Recents : ~(e[1] < n - Limit(snap))}

pruneRecents(snap, n) == {e \in snap.Recents : ~(e[1] <= n - Limit(snap))}

\* Application of one header on a snapshot, with checkpoints every `epoch`
\* blocks.
applyOneAt(epoch, snap, h) ==
    With(h.Number, LAMBDA n : With(ecrecover(h), LAMBDA rec :
    With(pruneRecents(snap, h.Number), LAMBDA pruned :
        IF n # snap.Number + 1
        THEN [err |-> "errInvalidVotingChain", snap |-> snap]
        ELSE IF rec.err # OK
        THEN [err |-> rec.err, snap |-> snap]
        ELSE IF rec.addr \notin snap.Signers
        THEN [err |-> "errUnauthorizedSigner", snap |-> snap]
        ELSE IF \E e \in pruned : e[2] = rec.addr
        THEN [err |-> "errRecentlySigned", snap |-> snap]
        ELSE IF h.Difficulty # (IF inturn(snap, n, rec.addr) THEN diffInTurn ELSE diffNoTurn)
        THEN [err |-> "errWrongDifficulty", snap |-> snap]
        ELSE IF n % epoch = 0
        THEN [err |-> OK,
              snap |-> newSnapshot(n, Hash(h), ExtraSigners(h.Extra))]
        ELSE [err |-> OK,
              snap |-> [Number |-> n, Hash |-> Hash(h),
                        Signers |-> snap.Signers,
                        Recents |-> pruned \cup {<<n, rec.addr>>}]])))

\* Application of one header on a snapshot of this chain.
applyOne(snap, h) == applyOneAt(aconfig.Epoch, snap, h)

\* Snapshot.apply(headers): the headers in ascending order, one by one; the
\* first failure rejects the batch and the receiver is left as it was.
RECURSIVE apply(_, _)
apply(snap, headers) ==
    IF headers = <<>>
    THEN [err |-> OK, snap |-> snap]
    ELSE With(applyOne(snap, Head(headers)),
              LAMBDA r : IF r.err # OK THEN r ELSE apply(r.snap, Tail(headers)))

\* Snapshot.store(db) and loadSnapshot(db, hash): keyed by the block hash.
store(d, snap) == {s \in d : s.Hash # snap.Hash} \cup {snap}

loadSnapshot(d, hash) ==
    IF \E s \in d : s.Hash = hash
    THEN CHOOSE s \in d : s.Hash = hash
    ELSE Nil

\* lru.ARCCache Get and Add of a.recents.
cacheGetPruned(rc, hash) ==
    IF \E s \in rc : s.Hash = hash
    THEN [(CHOOSE s \in rc : s.Hash = hash) EXCEPT !.Recents = {}]
    ELSE Nil

cacheGet(rc, hash) ==
    IF \E s \in rc : s.Hash = hash
    THEN CHOOSE s \in rc : s.Hash = hash
    ELSE Nil

cacheAdd(rc, snap) == {s \in rc : s.Hash # snap.Hash} \cup {snap}

(***************************************************************************)
(* ChainReader.                                                            *)
(***************************************************************************)
GetHeaderByNumber(number) ==
    IF number \in 0..(Len(chain) - 1) THEN chain[number + 1] ELSE Nil

GetHeader(hash, number) ==
    IF number \in 0..(Len(chain) - 1) /\ Hash(chain[number + 1]) = hash
    THEN chain[number + 1]
    ELSE Nil

Reverse(q) == [i \in 1..Len(q) |-> q[Len(q) + 1 - i]]

\* getHeader(chain, parents, number): the parents first, then the chain.
getHeader(parents, number) ==
    IF \E i \in DOMAIN parents : parents[i].Number = number
    THEN parents[CHOOSE i \in DOMAIN parents :
                    /\ parents[i].Number = number
                    /\ \A j \in 1..(i - 1) : parents[j].Number # number]
    ELSE GetHeaderByNumber(number)

\* getParentHeader(chain, header, parents).
getParentHeaderOrChain(header, parents) ==
    LET parent == IF /\ Len(parents) > 0
                     /\ parents[Len(parents)].Number = header.Number - 1
                     /\ Hash(parents[Len(parents)]) = header.ParentHash
                  THEN parents[Len(parents)]
                  ELSE GetHeader(header.ParentHash, header.Number - 1)
    IN  IF parent = Nil
           \/ parent.Number # header.Number - 1
           \/ Hash(parent) # header.ParentHash
        THEN Nil
        ELSE parent

getParentHeader(header, parents) ==
    LET parent == IF Len(parents) > 0
                  THEN parents[Len(parents)]
                  ELSE GetHeader(header.ParentHash, header.Number - 1)
    IN  IF parent = Nil
           \/ parent.Number # header.Number - 1
           \/ Hash(parent) # header.ParentHash
        THEN Nil
        ELSE parent

(***************************************************************************)
(* Governance client.  `ans` is what the call to the governance contract   *)
(* answers: [err, addresses].                                              *)
(***************************************************************************)
numberOfSigners == 10

Min(a, b) == IF a < b THEN a ELSE b

\* a.config, the params.AtmosConfig of the engine under verification.
Config == [Period |-> Period, Epoch |-> Epoch]

\* signersProbabilisticSelection; with no address the modulo divides by zero.
signersProbabilisticSelectionModLen(config, addresses, number) ==
    LET start == (number \div config.Epoch) % Len(addresses)
    IN  [index \in 1..Min(Len(addresses), numberOfSigners) |->
            addresses[((start + index - 1) % Len(addresses)) + 1]]

signersProbabilisticSelection(config, addresses, number) ==
    LET actualNumberOfSigners == Min(Len(addresses), numberOfSigners)
        start == (number \div config.Epoch) % actualNumberOfSigners
    IN  [index \in 1..actualNumberOfSigners |->
            addresses[((start + index - 1) % Len(addresses)) + 1]]

\* getComposers: the selection is computed and logged, the full list returned.
getComposers(number, parents, ans) ==
    IF ans.err = "errDial"
    THEN [err |-> ans.err, addresses |-> <<>>]
    ELSE IF number > 0 /\ getHeader(parents, number - 1) = Nil
    THEN [err |-> "panic", addresses |-> <<>>]
    ELSE IF ans.err # OK
    THEN [err |-> ans.err, addresses |-> <<>>]
    ELSE IF Len(ans.addresses) = 0
    THEN [err |-> "panic", addresses |-> <<>>]
    ELSE [err |-> OK, addresses |-> ans.addresses]

(***************************************************************************)
(* Atmos.snapshot.                                                         *)
(***************************************************************************)
\* The genesis block or a checkpoint taken as trusted: the signers are read
\* from the extra-data of the chain's header at that number and the
\* snapshot is stored.
trustedCheckpointSigned(d, number, headers) ==
    LET checkpoint == GetHeaderByNumber(number)
        snap == [newSnapshot(number, Hash(checkpoint),
                             ExtraSigners(checkpoint.Extra))
                    EXCEPT !.Recents = {<<number, ecrecover(checkpoint).addr>>}]
    IN  [err |-> OK, snap |-> snap, headers |-> headers, db |-> store(d, snap)]

trustedCheckpoint(d, number, headers) ==
    LET checkpoint == GetHeaderByNumber(number)
        snap == newSnapshot(number, Hash(checkpoint),
                            ExtraSigners(checkpoint.Extra))
    IN  [err |-> OK, snap |-> snap, headers |-> headers, db |-> store(d, snap)]

\* The loop that walks backwards until it finds a snapshot to start from;
\* `headers` are the headers gathered on the way, newest first.
RECURSIVE snapshotWalk(_, _, _, _, _, _, _)
snapshotWalk(rc, d, number, hash, parents, headers, ans) ==
    IF cacheGet(rc, hash) # Nil
    THEN [err |-> OK, snap |-> cacheGet(rc, hash), headers |-> headers, db |-> d]
    ELSE IF /\ \/ number = 0
               \/ /\ number % aconfig.Epoch = 0
                  /\ \/ Len(headers) > ImmutabilityThreshold
                     \/ GetHeaderByNumber(number - 1) = Nil
            /\ GetHeaderByNumber(number) # Nil
    THEN trustedCheckpoint(d, number, headers)
    ELSE IF number % aconfig.Epoch = 0
    THEN IF loadSnapshot(d, hash) # Nil
         THEN [err |-> OK, snap |-> loadSnapshot(d, hash), headers |-> headers, db |-> d]
         ELSE With(getComposers(number, parents, ans),
                   LAMBDA g :
                  IF g.err # OK
                  THEN [err |-> g.err, snap |-> Nil, headers |-> headers, db |-> d]
                  ELSE IF Len(g.addresses) = 0
                  THEN [err |-> "errInvalidNumberOfSigners", snap |-> Nil,
                        headers |-> headers, db |-> d]
                  ELSE [err |-> OK, snap |-> newSnapshot(number, hash, g.addresses),
                        headers |-> headers, db |-> d])
    ELSE IF Len(parents) > 0
    THEN LET header == parents[Len(parents)]
         IN  IF Hash(header) # hash \/ header.Number # number
             THEN [err |-> "ErrUnknownAncestor", snap |-> Nil, headers |-> headers, db |-> d]
             ELSE snapshotWalk(rc, d, number - 1, header.ParentHash,
                               SubSeq(parents, 1, Len(parents) - 1),
                               Append(headers, header), ans)
    ELSE LET header == GetHeader(hash, number)
         IN  IF header = Nil
             THEN [err |-> "ErrUnknownAncestor", snap |-> Nil, headers |-> headers, db |-> d]
             ELSE snapshotWalk(rc, d, number - 1, header.ParentHash, parents,
                               Append(headers, header), ans)

\* Atmos.snapshot: snap.apply(headers) failed on the snapshot the walk w
\* found; the error is returned and a.recents is not touched.
applyRejectedKeepsBase(rc, w, err) ==
    [err |-> err, snap |-> Nil, recents |-> cacheAdd(rc, w.snap), db |-> w.db]

applyRejected(rc, w, err) ==
    [err |-> err, snap |-> Nil, recents |-> rc, db |-> w.db]

\* Atmos.snapshot: the result, and the two stores as the call leaves them.
snapshot(rc, d, number, hash, parents, ans) ==
    With(snapshotWalk(rc, d, number, hash, parents, <<>>, ans), LAMBDA w :
        IF w.err # OK
        THEN [err |-> w.err, snap |-> Nil, recents |-> rc, db |-> w.db]
        ELSE With(apply(w.snap, Reverse(w.headers)), LAMBDA r :
            IF r.err # OK
            THEN applyRejected(rc, w, r.err)
            ELSE [err |-> OK, snap |-> r.snap, recents |-> cacheAdd(rc, r.snap),
                  db |-> IF r.snap.Number % aconfig.Epoch = 0 /\ Len(w.headers) > 0
                         THEN store(w.db, r.snap)
                         ELSE w.db]))

(***************************************************************************)
(* Verification.  Every operator returns its error (OK for nil), the two   *)
(* stores as the call leaves them, and the parent snapshot it obtained.    *)
(***************************************************************************)
\* a.fakeDiff: set by no code path of the engine.
fakeDiff == FALSE

Result(err, rc, d, snap) == [err |-> err, recents |-> rc, db |-> d, snap |-> snap]

\* verifySeal: the signer must be authorised by the snapshot.
isSignerSkipped(snap, a) == TRUE

isSigner(snap, a) == a \in snap.Signers

\* verifySeal: the signer is among the recent ones and the block does not
\* shift it out; number-limit is a subtraction of two uint64.
recentlySignedAtLimit(snap, number, a) ==
    \E e \in snap.Recents : e[2] = a /\ e[1] >= USub(number, Limit(snap))

recentlySigned(snap, number, a) ==
    \E e \in snap.Recents : e[2] = a /\ e[1] > USub(number, Limit(snap))

\* verifySeal: the difficulty does not match the turn of the signer.
wrongDifficultyInTurnOnly(snap, header, a) ==
    inturn(snap, header.Number, a) /\ header.Difficulty # diffInTurn

wrongDifficulty(snap, header, a) ==
    LET turn == inturn(snap, header.Number, a)
    IN  \/ turn /\ header.Difficulty # diffInTurn
        \/ ~turn /\ header.Difficulty # diffNoTurn

\* verifySeal: verifying the genesis block is not supported.
sealOfGenesisNever(header) == FALSE

sealOfGenesis(header) == header.Number = 0

\* Atmos.verifySeal.
verifySeal(rc, d, header, parents, ans) ==
    With(snapshot(rc, d, header.Number - 1, header.ParentHash, parents, ans),
         LAMBDA s : With(ecrecover(header), LAMBDA rec :
        IF sealOfGenesis(header)
        THEN Result("errUnknownBlock", rc, d, Nil)
        ELSE IF s.err # OK
        THEN Result(s.err, s.recents, s.db, Nil)
        ELSE IF rec.err # OK
        THEN Result(rec.err, s.recents, s.db, s.snap)
        ELSE IF ~isSigner(s.snap, rec.addr)
        THEN Result("errUnauthorizedSigner", s.recents, s.db, s.snap)
        ELSE IF recentlySigned(s.snap, header.Number, rec.addr)
        THEN Result("errRecentlySigned", s.recents, s.db, s.snap)
        ELSE IF ~fakeDiff /\ wrongDifficulty(s.snap, header, rec.addr)
        THEN Result("errWrongDifficulty", s.recents, s.db, s.snap)
        ELSE Result(OK, s.recents, s.db, s.snap)))

\* The signer bytes verifyCascadingFields expects on a checkpoint block:
\* snap.signers(), each copied to its 20 bytes.
SignersBytesDescending(snap) ==
    LET sorted == SortedSigners(snap.Signers)
    IN  Concat([i \in DOMAIN sorted |-> AddrBytes(sorted[Len(sorted) + 1 - i])])

SignersBytes(snap) ==
    LET sorted == SortedSigners(snap.Signers)
    IN  Concat([i \in DOMAIN sorted |-> AddrBytes(sorted[i])])

\* verifyCascadingFields: the block is closer to its parent than the period.
tooEarlyNever(parent, header) == FALSE

tooEarly(parent, header) == parent.Time + Period > header.Time

\* Atmos.verifyCascadingFields.
verifyCascadingFields(rc, d, header, parents, ans) ==
    With(getParentHeader(header, parents), LAMBDA parent :
        IF header.Number = 0
        THEN Result(OK, rc, d, Nil)
        ELSE IF parent = Nil
        THEN Result("ErrUnknownAncestor", rc, d, Nil)
        ELSE IF tooEarly(parent, header)
        THEN Result("ErrInvalidTimestamp", rc, d, Nil)
        ELSE With(snapshot(rc, d, header.Number - 1, header.ParentHash, parents, ans),
                  LAMBDA s :
            IF s.err # OK
            THEN Result(s.err, s.recents, s.db, Nil)
            ELSE IF /\ header.Number % aconfig.Epoch = 0
                    /\ SubSeq(header.Extra, extraVanity + 1,
                              Len(header.Extra) - extraSeal)
                           # SignersBytes(s.snap)
            THEN Result("errMismatchingCheckpointSigners", s.recents, s.db, s.snap)
            ELSE verifySeal(s.recents, s.db, header, parents, ans)))

\* verifyHeader: a block that is no checkpoint carries bytes between vanity
\* and seal.
extraSignersNever(checkpoint, signersBytes) == FALSE

extraSigners(checkpoint, signersBytes) == ~checkpoint /\ signersBytes # 0

\* verifyHeader: the difficulty of a block other than genesis is missing, or
\* is neither of the two the engine knows.
invalidDifficultyNever(header) == FALSE

invalidDifficulty(header) ==
    /\ header.Number > 0
    /\ \/ header.Difficulty = NoDifficulty
       \/ (header.Difficulty # diffInTurn /\ header.Difficulty # diffNoTurn)

\* Atmos.verifyHeader.  misc.VerifyForkHashes has no fork hash to check.
verifyHeader(rc, d, header, parents, nowv, ans) ==
    LET number == header.Number
        checkpoint == (number % aconfig.Epoch) = 0
        signersBytes == Len(header.Extra) - extraVanity - extraSeal
    IN  IF header.Number = NoNumber
        THEN Result("errUnknownBlock", rc, d, Nil)
        ELSE IF header.Time > nowv
        THEN Result("ErrFutureBlock", rc, d, Nil)
        ELSE IF checkpoint /\ header.Coinbase # ZeroAddress
        THEN Result("errInvalidCheckpointBeneficiary", rc, d, Nil)
        ELSE IF Len(header.Extra) < extraVanity
        THEN Result("errMissingVanity", rc, d, Nil)
        ELSE IF Len(header.Extra) < extraVanity + extraSeal
        THEN Result("errMissingSignature", rc, d, Nil)
        ELSE IF extraSigners(checkpoint, signersBytes)
        THEN Result("errExtraSigners", rc, d, Nil)
        ELSE IF checkpoint /\ signersBytes % AddressLength # 0
        THEN Result("errInvalidCheckpointSigners", rc, d, Nil)
        ELSE IF header.MixDigest # 0
        THEN Result("errInvalidMixDigest", rc, d, Nil)
        ELSE IF header.UncleHash # EmptyUncleHash
        THEN Result("errInvalidUncleHash", rc, d, Nil)
        ELSE IF invalidDifficulty(header)
        THEN Result("errInvalidDifficulty", rc, d, Nil)
        ELSE verifyCascadingFields(rc, d, header, parents, ans)

(***************************************************************************)
(* The engine at work: headers arrive and are verified, verified headers   *)
(* are inserted into the chain, the clock advances, the node restarts.     *)
(***************************************************************************)
verifyVars == <<lastOp, lastHeader, lastErr, lastSnap>>
mineVars ==
    <<mpc, work, prepSigner, sealSigner, signedHash, credited, timer, stopAt, sink>>
batchVars ==
    <<batch, bpc, bi, pending, results, received, aborted, bans, recents0, db0>>
raceVars == <<lock, signFn, threads>>
vars ==
    <<chain, recents, db, signer, now, composers, aconfig, verifyVars, mineVars, batchVars, call,
      raceVars>>

Hdr(number, parentHash, time, difficulty, coinbase, extra, mix, uncle) ==
    [Number |-> number, ParentHash |-> parentHash, Time |-> time,
     Difficulty |-> difficulty, Coinbase |-> coinbase, Extra |-> extra,
     MixDigest |-> mix, UncleHash |-> uncle, Nonce |-> 0, Root |-> 0]

\* The ascending list of the first k addresses, and the bytes of a list.
Prefix(k) == [i \in 1..k |-> Addr(i)]

ListBytes(list) == Concat([i \in DOMAIN list |-> AddrBytes(list[i])])

\* The genesis block: vanity, the signers in ascending order, a zero seal.
Genesis(k) ==
    Hdr(0, ZeroHash, 0, diffNoTurn, ZeroAddress,
        Zeros(extraVanity) \o ListBytes(Prefix(k)) \o Zeros(extraSeal),
        0, EmptyUncleHash)

\* What the governance contract may hold: nothing, some composers, or one
\* composer more than numberOfSigners, in the order the contract lists them
\* (descending here).
GovLists == {Reverse(Prefix(k)) : k \in {0, NumAddr - 1, numberOfSigners + 1}}

\* The sizes of the signer list in the genesis block.
GenesisSizes == {1, NumAddr}

\* What one call to the contract answers.
GovAnswers == {[err |-> e, addresses |-> composers] : e \in {OK, "errDial"}}

\* A fresh engine with the given configuration over a chain that holds a
\* genesis block with one of the given numbers of signers, beside a
\* governance contract that holds one of the given lists; nothing is being
\* mined, no batch is being verified.
InitEngineFor(cfg, sizes, lists) ==
    /\ aconfig = cfg
    /\ \E k \in sizes : chain = <<Genesis(k)>>
    /\ recents = {}
    /\ db = {}
    /\ signer = ZeroAddress
    /\ signFn = Nil
    /\ lock = [writer |-> FALSE, readers |-> 0]
    /\ composers \in lists
    /\ lastOp = "none"
    /\ lastHeader = Nil
    /\ lastErr = "none"
    /\ lastSnap = Nil
    /\ mpc = "idle"
    /\ work = Nil
    /\ prepSigner = ZeroAddress
    /\ sealSigner = ZeroAddress
    /\ signedHash = Nil
    /\ credited = Nil
    /\ timer = Nil
    /\ stopAt = NoTime
    /\ sink = <<>>
    /\ batch = <<>>
    /\ bpc = "none"
    /\ bi = 1
    /\ pending = "none"
    /\ results = <<>>
    /\ received = <<>>
    /\ aborted = FALSE
    /\ bans = Nil
    /\ recents0 = {}
    /\ db0 = {}

InitEngineWith(sizes, lists) == InitEngineFor(Config, sizes, lists)

InitEngineOn(sizes) == InitEngineWith(sizes, GovLists)

InitEngine == InitEngineOn(GenesisSizes)

Init ==
    /\ InitEngine
    /\ now = MaxTime
    /\ call = Nil
    /\ threads = <<>>

head == chain[Len(chain)]

\* Signer segments a header may carry between vanity and seal.
Segments ==
    {ListBytes(Prefix(k)) : k \in GenesisSizes \cup {0}}
        \cup {ListBytes(Reverse(Prefix(NumAddr)))}

\* The keys that seal arriving headers; 0 is a seal no key made.
Sealers == 0..NumAddr

\* Headers for the next height whose standalone fields are in order: any
\* sealer, either difficulty, any signer segment, a time around the minimum.
SealCands ==
    LET parentHash == Hash(head)
    IN  {Hdr(Len(chain), parentHash, t, dd, ZeroAddress,
             Zeros(extraVanity) \o seg \o Sig(k), 0, EmptyUncleHash) :
            t \in (head.Time + Period - 1)..(head.Time + Period),
            dd \in {diffNoTurn, diffInTurn},
            seg \in Segments,
            k \in Sealers}

\* Extra-data that is too short, or of a wrong length, under a seal no key made.
Extras ==
    {Zeros(extraVanity - 1), Zeros(extraVanity + extraSeal - 1),
     Zeros(extraVanity) \o <<0>> \o Sig(0),
     Zeros(extraVanity) \o ListBytes(Prefix(1)) \o Sig(0)}

\* Ways to put one field of a header out of order.
FieldFaults ==
    {<<"Number", n>> : n \in {NoNumber, 0, Len(chain) + 1}}
        \cup {<<"ParentHash", ZeroHash>>, <<"Time", now + 1>>,
              <<"Coinbase", Addr(1)>>, <<"MixDigest", 1>>,
              <<"UncleHash", "otherUncles">>}
        \cup {<<"Difficulty", dd>> : dd \in {NoDifficulty, 0, 3}}
        \cup {<<"Extra", ex>> : ex \in Extras}

\* Headers for the next height with up to two fields out of order, under a
\* seal no key made.
FieldCands ==
    LET base == Hdr(Len(chain), Hash(head), head.Time + Period, diffNoTurn,
                    ZeroAddress, Zeros(extraVanity) \o Sig(0), 0, EmptyUncleHash)
    IN  {[[base EXCEPT ![p[1]] = p[2]] EXCEPT ![q[1]] = q[2]] :
            p \in FieldFaults, q \in FieldFaults}

\* VerifyHeader(chain, header, seal), called by the chain's insertion thread.
VerifyHeader(h, ans) ==
    /\ lastOp = "none"
    /\ \E r \in {verifyHeader(recents, db, h, <<>>, now, ans)} :
        /\ recents' = r.recents
        /\ db' = r.db
        /\ lastOp' = "VerifyHeader"
        /\ lastHeader' = h
        /\ lastErr' = r.err
        /\ lastSnap' = r.snap
        /\ UNCHANGED <<chain, signer, now, composers, aconfig, call, raceVars, mineVars, batchVars>>

\* VerifySeal(chain, header).
VerifySeal(h, ans) ==
    /\ lastOp = "none"
    /\ \E r \in {verifySeal(recents, db, h, <<>>, ans)} :
        /\ recents' = r.recents
        /\ db' = r.db
        /\ lastOp' = "VerifySeal"
        /\ lastHeader' = h
        /\ lastErr' = r.err
        /\ lastSnap' = r.snap
        /\ UNCHANGED <<chain, signer, now, composers, aconfig, call, raceVars, mineVars, batchVars>>

\* The chain takes in the header VerifyHeader has just accepted.
InsertHeader ==
    /\ lastOp = "VerifyHeader"
    /\ lastErr = OK
    /\ lastHeader.Number = Len(chain)
    /\ Len(chain) <= MaxHeight
    /\ chain' = Append(chain, lastHeader)
    /\ lastOp' = "none"
    /\ lastHeader' = Nil
    /\ lastErr' = "none"
    /\ lastSnap' = Nil
    /\ UNCHANGED <<recents, db, signer, now, composers, aconfig, call, raceVars, mineVars, batchVars>>

\* The caller is done with the result of the call and drops the header.
Drop ==
    /\ lastOp # "none"
    /\ lastOp' = "none"
    /\ lastHeader' = Nil
    /\ lastErr' = "none"
    /\ lastSnap' = Nil
    /\ UNCHANGED <<chain, recents, db, signer, now, composers, aconfig, call, raceVars, mineVars, batchVars>>

\* The waiter of Seal, `select { case <-stop: ...; case <-time.After(delay): }`:
\* the cases that can proceed.
stopReady(stopv) == stopv # NoTime

timerReadyAlways(tm, nowv) == TRUE

timerReady(tm, nowv) == nowv - tm.start >= tm.delay

\* A second passes.  A waiter that can proceed does so first.
Tick ==
    /\ now < MaxTime
    /\ ~(mpc = "sealed" /\ (stopReady(stopAt) \/ timerReady(timer, now)))
    /\ now' = now + 1
    /\ UNCHANGED <<chain, recents, db, signer, composers, aconfig, call, raceVars, verifyVars, mineVars,
                   batchVars>>

\* New(config, db): a fresh engine over the same database.
New ==
    /\ lastOp = "none"
    /\ mpc = "idle"
    /\ bpc = "none"
    /\ recents # {}
    /\ recents' = {}
    /\ signer' = ZeroAddress
    /\ UNCHANGED <<chain, db, now, composers, aconfig, call, raceVars, verifyVars, mineVars, batchVars>>

Next ==
    \/ /\ lastOp = "none"
       /\ \E h \in SealCands \cup FieldCands, ans \in GovAnswers : VerifyHeader(h, ans)
    \/ /\ lastOp = "none"
       /\ \E h \in {c \in SealCands : Len(c.Extra) = extraVanity + extraSeal},
             ans \in GovAnswers : VerifySeal(h, ans)
    \/ InsertHeader
    \/ Drop
    \/ New

Spec == Init /\ [][Next]_vars

(***************************************************************************)
(* Mining: Prepare, FinalizeAndAssemble and Seal, the delivery of the      *)
(* sealed block and its verification by the engine that made it.           *)
(***************************************************************************)
\* CalcDifficulty(snap, signer).
CalcDifficultyAtSnapshot(snap, a) ==
    IF inturn(snap, snap.Number, a) THEN diffInTurn ELSE diffNoTurn

CalcDifficulty(snap, a) ==
    IF inturn(snap, snap.Number + 1, a) THEN diffInTurn ELSE diffNoTurn

\* Prepare: the extra-data padded with zeros to extraVanity bytes and cut
\* to extraVanity bytes.
vanityPaddedOnly(extra) ==
    IF Len(extra) < extraVanity
    THEN extra \o Zeros(extraVanity - Len(extra))
    ELSE extra

vanity(extra) ==
    LET padded == IF Len(extra) < extraVanity
                  THEN extra \o Zeros(extraVanity - Len(extra))
                  ELSE extra
    IN  SubSeq(padded, 1, extraVanity)

\* Prepare: on a checkpoint, the signers of the parent snapshot in
\* ascending order.
checkpointSignersAboveFirstEpoch(snap, number) ==
    IF number % aconfig.Epoch = 0 /\ number > aconfig.Epoch
    THEN ListBytes(SortedSigners(snap.Signers))
    ELSE <<>>

checkpointSigners(snap, number) ==
    IF number % aconfig.Epoch = 0
    THEN ListBytes(SortedSigners(snap.Signers))
    ELSE <<>>

\* Prepare: the vanity of the header, the signers on a checkpoint, room for
\* the seal.
prepareExtra(extra, snap, number) ==
    vanity(extra) \o checkpointSigners(snap, number) \o Zeros(extraSeal)

\* Atmos.Prepare: the error, the header as the call leaves it, the stores.
prepare(rc, d, header, sgn, nowv, ans) ==
    With(snapshot(rc, d, USub(header.Number, 1), header.ParentHash, <<>>, ans),
         LAMBDA s :
        IF s.err # OK
        THEN [err |-> s.err,
              header |-> [header EXCEPT !.Coinbase = ZeroAddress, !.Nonce = 0],
              recents |-> s.recents, db |-> s.db, snap |-> Nil]
        ELSE With([header EXCEPT
                       !.Coinbase = ZeroAddress,
                       !.Nonce = 0,
                       !.Difficulty = CalcDifficulty(s.snap, sgn),
                       !.Extra = prepareExtra(header.Extra, s.snap, header.Number),
                       !.MixDigest = 0],
                  LAMBDA h2 :
             With(GetHeader(header.ParentHash, header.Number - 1), LAMBDA parent :
            IF parent = Nil
            THEN [err |-> "ErrUnknownAncestor", header |-> h2,
                  recents |-> s.recents, db |-> s.db, snap |-> s.snap]
            ELSE [err |-> OK,
                  header |-> [h2 EXCEPT !.Time = IF parent.Time + Period < nowv
                                                 THEN nowv
                                                 ELSE parent.Time + Period],
                  recents |-> s.recents, db |-> s.db, snap |-> s.snap])))

\* accumulateRewards: the signer recovered from the header, else a.signer.
rewarded(header, sgn) ==
    LET rec == ecrecover(header)
    IN  IF rec.err # OK THEN sgn ELSE rec.addr

\* state.IntermediateRoot: the root of a state that credits the address.
StateRoot(a) == a + 1

\* Seal: the signer is among the recent ones and has to wait.
sealRecentlySignedFromLimit(snap, number, a) ==
    \E e \in snap.Recents :
        /\ e[2] = a
        /\ number >= Limit(snap)
        /\ e[1] > USub(number, Limit(snap))

sealRecentlySigned(snap, number, a) ==
    \E e \in snap.Recents :
        /\ e[2] = a
        /\ \/ number < Limit(snap)
           \/ e[1] > USub(number, Limit(snap))

\* Seal: _, authorized := snap.Signers[signer].
authorizedAlways(snap, sgn) == TRUE

authorized(snap, sgn) == sgn \in snap.Signers

\* Seal returns before a block is on its way: the header is left as it was.
notSealed(err, header, rc, d, snap) ==
    [err |-> err, header |-> header, sealed |-> FALSE,
     recents |-> rc, db |-> d, snap |-> snap, delay |-> 0]

\* rand.Int63n(n): a number in [0, n), here the one the entropy gives.
Int63n(entropy, n) == entropy % n

\* Seal: the delay in seconds (wiggleTime is one second): the time left until
\* header.Time, and for a block out of turn a random part of the wiggle.
sealDelay(snap, header, nowv, entropy) ==
    (header.Time - nowv)
        + (IF header.Difficulty = diffNoTurn
           THEN Int63n(entropy, Limit(snap))
           ELSE 0)

\* Atmos.Seal up to the start of the goroutine: the error, the header with
\* the signature copied in, whether a block is on its way to the results
\* channel, the delay of the waiter.  txs: len(block.Transactions());
\* signOK: the signing function signs; entropy: what rand draws from.
seal(config, txs, rc, d, header, sgn, signOK, nowv, entropy, ans) ==
    With(snapshot(rc, d, header.Number - 1, header.ParentHash, <<>>, ans),
         LAMBDA s :
        IF header.Number = 0
        THEN notSealed("errUnknownBlock", header, rc, d, Nil)
        ELSE IF config.Period = 0 /\ txs = 0
        THEN notSealed(OK, header, rc, d, Nil)
        ELSE IF s.err # OK
        THEN notSealed(s.err, header, s.recents, s.db, Nil)
        ELSE IF ~authorized(s.snap, sgn)
        THEN notSealed("errUnauthorizedSigner", header, s.recents, s.db, s.snap)
        ELSE IF sealRecentlySigned(s.snap, header.Number, sgn)
        THEN notSealed(OK, header, s.recents, s.db, s.snap)
        ELSE IF ~signOK
        THEN notSealed("errSign", header, s.recents, s.db, s.snap)
        ELSE [err |-> OK,
              header |-> [header EXCEPT !.Extra =
                              SubSeq(header.Extra, 1, Len(header.Extra) - extraSeal)
                                  \o Sig(sgn)],
              sealed |-> TRUE, recents |-> s.recents, db |-> s.db, snap |-> s.snap,
              delay |-> sealDelay(s.snap, header, nowv, entropy)])

\* What the miner hands to Prepare: the next height on top of the head (or of
\* an unknown parent), with fields Prepare and Finalize overwrite.
Vanities == {<<>>, Zeros(extraVanity + 1)}

WorkCands ==
    {Hdr(Len(chain), ph, 0, NoDifficulty, Addr(1), ex, 1, "otherUncles") :
        ph \in {Hash(head), ZeroHash}, ex \in Vanities}

Prepare(h, ans) ==
    /\ mpc = "idle"
    /\ Len(chain) <= MaxHeight
    /\ \E r \in {prepare(recents, db, h, signer, now, ans)} :
        /\ recents' = r.recents
        /\ db' = r.db
        /\ lastOp' = "Prepare"
        /\ lastHeader' = r.header
        /\ lastErr' = r.err
        /\ lastSnap' = r.snap
        /\ mpc' = IF r.err = OK THEN "prepared" ELSE "failed"
        /\ work' = r.header
        /\ prepSigner' = signer
        /\ UNCHANGED <<chain, signer, now, composers, aconfig, call, raceVars, sealSigner, signedHash,
                       credited, timer, stopAt, sink, batchVars>>

FinalizeAndAssemble ==
    /\ mpc = "prepared"
    /\ mpc' = "finalized"
    /\ credited' = rewarded(work, signer)
    /\ work' = [work EXCEPT !.Root = StateRoot(credited'),
                            !.UncleHash = EmptyUncleHash]
    /\ UNCHANGED <<chain, recents, db, signer, now, composers, aconfig, call, raceVars, verifyVars,
                   prepSigner, sealSigner, signedHash, timer, stopAt, sink, batchVars>>

Seal(txs, signOK, entropy, ans) ==
    /\ mpc = "finalized"
    /\ \E r \in {seal(aconfig, txs, recents, db, work, signer, signOK, now, entropy,
                       ans)} :
        /\ recents' = r.recents
        /\ db' = r.db
        /\ lastOp' = "Seal"
        /\ lastHeader' = r.header
        /\ lastErr' = r.err
        /\ lastSnap' = r.snap
        /\ mpc' = IF r.sealed THEN "sealed" ELSE "failed"
        /\ work' = r.header
        /\ sealSigner' = signer
        /\ signedHash' = IF r.sealed THEN SealHash(work) ELSE signedHash
        /\ timer' = IF r.sealed THEN [start |-> now, delay |-> r.delay] ELSE Nil
        /\ UNCHANGED <<chain, signer, now, composers, aconfig, call, raceVars, prepSigner, credited,
                       stopAt, sink, batchVars>>

\* The second select of the waiter: the block goes to the results channel
\* unless nobody reads it.
offerAnyway(sinkv, full, header, nowv) == Append(sinkv, [header |-> header, at |-> nowv])

offer(sinkv, full, header, nowv) ==
    IF full THEN sinkv ELSE Append(sinkv, [header |-> header, at |-> nowv])

\* The waiter of Seal: the delay is over, the block is offered to results.
Deliver(full) ==
    /\ mpc = "sealed"
    /\ timerReady(timer, now)
    /\ sink' = offer(sink, full, work, now)
    /\ mpc' = IF full THEN "dropped" ELSE "delivered"
    /\ UNCHANGED <<chain, recents, db, signer, now, composers, aconfig, call, raceVars, verifyVars, work,
                   prepSigner, sealSigner, signedHash, credited, timer, stopAt,
                   batchVars>>

\* The miner closes the stop channel.
CloseStop ==
    /\ mpc = "sealed"
    /\ stopAt = NoTime
    /\ stopAt' = now
    /\ UNCHANGED <<chain, recents, db, signer, now, composers, aconfig, call, raceVars, verifyVars, mpc,
                   work, prepSigner, sealSigner, signedHash, credited, timer, sink,
                   batchVars>>

\* The waiter of Seal: stop is closed, the waiter returns.
Stop ==
    /\ mpc = "sealed"
    /\ stopReady(stopAt)
    /\ mpc' = "stopped"
    /\ UNCHANGED <<chain, recents, db, signer, now, composers, aconfig, call, raceVars, verifyVars, work,
                   prepSigner, sealSigner, signedHash, credited, timer, stopAt, sink,
                   batchVars>>

\* The miner is done with the block: its fields are forgotten.
Forget ==
    /\ mpc' = "idle"
    /\ work' = Nil
    /\ prepSigner' = ZeroAddress
    /\ sealSigner' = ZeroAddress
    /\ signedHash' = Nil
    /\ credited' = Nil
    /\ timer' = Nil
    /\ stopAt' = NoTime
    /\ sink' = <<>>
    /\ lastOp' = "none"
    /\ lastHeader' = Nil
    /\ lastErr' = "none"
    /\ lastSnap' = Nil

\* The miner takes the block off the results channel and the chain verifies
\* it.
VerifyMined(ans) ==
    /\ mpc = "delivered"
    /\ \E r \in {verifyHeader(recents, db, work, <<>>, now, ans)} :
        /\ recents' = r.recents
        /\ db' = r.db
        /\ lastOp' = "VerifyHeader"
        /\ lastHeader' = work
        /\ lastErr' = r.err
        /\ lastSnap' = r.snap
        /\ mpc' = "verified"
        /\ timer' = Nil
        /\ stopAt' = NoTime
        /\ sink' = <<>>
        /\ UNCHANGED <<chain, signer, now, composers, aconfig, call, raceVars, work, prepSigner, sealSigner,
                       signedHash, credited, batchVars>>

\* The chain takes in the mined block.
InsertMined ==
    /\ mpc = "verified"
    /\ lastErr = OK
    /\ work.Number = Len(chain)
    /\ chain' = Append(chain, work)
    /\ Forget
    /\ UNCHANGED <<recents, db, signer, now, composers, aconfig, call, raceVars, batchVars>>

\* The miner gives the block up: Prepare or Seal returned without a block,
\* the waiter ended without one, or the chain did not take it.
DropMined ==
    /\ mpc \in {"verified", "failed", "stopped", "dropped"}
    /\ Forget
    /\ UNCHANGED <<chain, recents, db, signer, now, composers, aconfig, call, raceVars, batchVars>>

\* The keys the miner may hold.
MinerKeys == 1..2

\* Atmos.Authorize: the credential of another key, before the block is sealed.
Authorize(k) ==
    /\ mpc \in {"idle", "prepared", "finalized"}
    /\ signer # Addr(k)
    /\ signer' = Addr(k)
    /\ UNCHANGED <<chain, recents, db, now, composers, aconfig, call, raceVars, verifyVars, mineVars,
                   batchVars>>

InitMine ==
    /\ InitEngine
    /\ now = 0
    /\ call = Nil
    /\ threads = <<>>

NextMine ==
    \/ \E h \in WorkCands, ans \in GovAnswers : Prepare(h, ans)
    \/ FinalizeAndAssemble
    \/ \E txs \in 0..1, signOK \in BOOLEAN, entropy \in 0..(NumAddr \div 2),
          ans \in GovAnswers : Seal(txs, signOK, entropy, ans)
    \/ \E full \in BOOLEAN : Deliver(full)
    \/ CloseStop
    \/ Stop
    \/ \E ans \in GovAnswers : VerifyMined(ans)
    \/ InsertMined
    \/ DropMined
    \/ \E k \in MinerKeys : Authorize(k)
    \/ Tick

SpecMine == InitMine /\ [][NextMine]_vars

\* Mining on a chain with one signer: the genesis block lists the first
\* address and the governance contract holds it and no other.
InitSolo ==
    /\ InitEngineWith({1}, {Prefix(1)})
    /\ now = 0
    /\ call = Nil
    /\ threads = <<>>

SpecSolo == InitSolo /\ [][NextMine]_vars

\* Mining on a chain whose configuration has Epoch = 1: every block is a
\* checkpoint.
InitEveryBlock ==
    /\ InitEngineFor([Config EXCEPT !.Epoch = 1], GenesisSizes,
                     {l \in GovLists : Len(l) \in 1..numberOfSigners})
    /\ now = 0
    /\ call = Nil
    /\ threads = <<>>

SpecEveryBlock == InitEveryBlock /\ [][NextMine]_vars

(***************************************************************************)
(* VerifyHeaders: a goroutine verifies the batch header by header and      *)
(* sends each result to a channel with room for the whole batch; the       *)
(* caller reads the channel and may close the abort channel.               *)
(***************************************************************************)
\* headers[:i], the parents handed to verifyHeader with the i-th header
\* (counted from 1 here).
hintWithHeader(headers, i) == SubSeq(headers, 1, i)

hint(headers, i) == SubSeq(headers, 1, i - 1)

\* The signer list a checkpoint above `parent` carries: the one of genesis
\* within the first epoch, the composers of the contract after it.
SegmentOn(parent) ==
    IF (parent.Number + 1) % aconfig.Epoch # 0
    THEN <<>>
    ELSE IF parent.Number + 1 <= aconfig.Epoch
    THEN SignerSegmentOf(chain[1].Extra)
    ELSE ListBytes(SortedSigners({composers[i] : i \in DOMAIN composers}))

\* A header on top of `parent`, sealed by key c.k with difficulty c.dd and
\* mix digest c.mix, one period after its parent.
Child(parent, c) ==
    Hdr(parent.Number + 1, Hash(parent), parent.Time + Period, c.dd, ZeroAddress,
        Zeros(extraVanity) \o SegmentOn(parent) \o Sig(c.k), c.mix, EmptyUncleHash)

\* How the headers of a batch may be made.
Makes ==
    {[k |-> 1, dd |-> diffNoTurn, mix |-> 0], [k |-> 1, dd |-> diffInTurn, mix |-> 0],
     [k |-> 2, dd |-> diffNoTurn, mix |-> 0], [k |-> 2, dd |-> diffInTurn, mix |-> 0],
     [k |-> 1, dd |-> diffNoTurn, mix |-> 1]}

\* The batches of n headers on top of `parent`, each header the child of
\* the one before it.
RECURSIVE BatchesOn(_, _)
BatchesOn(parent, n) ==
    IF n = 0
    THEN {<<>>}
    ELSE UNION {{<<Child(parent, c)>> \o rest :
                     rest \in BatchesOn(Child(parent, c), n - 1)} : c \in Makes}

\* The longest batch handed to VerifyHeaders.
MaxBatch == 3

Batches ==
    UNION {BatchesOn(head, n) : n \in 0..Min(MaxBatch, MaxHeight + 1 - Len(chain))}

\* VerifyHeaders up to the start of the goroutine.  Batches are handed to an
\* engine that has just been started.
VerifyHeaders(headers, ans) ==
    /\ bpc = "none"
    /\ recents = {}
    /\ batch' = headers
    /\ bpc' = IF headers = <<>> THEN "done" ELSE "running"
    /\ bi' = 1
    /\ pending' = "none"
    /\ results' = <<>>
    /\ received' = <<>>
    /\ aborted' = FALSE
    /\ bans' = ans
    /\ recents0' = recents
    /\ db0' = db
    /\ UNCHANGED <<chain, recents, db, signer, now, composers, aconfig, call, raceVars, verifyVars, mineVars>>

\* make(chan error, len(headers)): the room of the results channel.
capacityOne(headers) == 1

capacity(headers) == Len(headers)

\* The goroutine verifies headers[i] with headers[:i]; the result is held
\* until the select.  A panic inside verifyHeader ends the process.
Produce ==
    /\ bpc = "running"
    /\ \E r \in {verifyHeader(recents, db, batch[bi], hint(batch, bi), now, bans)} :
        /\ recents' = r.recents
        /\ db' = r.db
        /\ IF r.err = "panic"
           THEN bpc' = "crashed" /\ UNCHANGED pending
           ELSE bpc' = "select" /\ pending' = r.err
    /\ UNCHANGED <<chain, signer, now, composers, aconfig, call, raceVars, verifyVars, mineVars, batch, bi,
                   results, received, aborted, bans, recents0, db0>>

\* The select of the goroutine: the receive from abort can be taken once
\* abort is closed, the send once the channel has room; when both can, the
\* runtime picks either.
Select(return) ==
    /\ bpc = "select"
    /\ IF return
       THEN /\ aborted
            /\ bpc' = "done"
            /\ UNCHANGED <<bi, results>>
       ELSE /\ Len(results) < capacity(batch)
            /\ results' = Append(results, pending)
            /\ bi' = bi + 1
            /\ bpc' = IF bi = Len(batch) THEN "done" ELSE "running"
    /\ pending' = "none"
    /\ UNCHANGED <<chain, recents, db, signer, now, composers, aconfig, call, raceVars, verifyVars, mineVars,
                   batch, received, aborted, bans, recents0, db0>>

\* The caller reads the next result.
Receive ==
    /\ bpc \in {"running", "select", "done"}
    /\ results # <<>>
    /\ received' = Append(received, Head(results))
    /\ results' = Tail(results)
    /\ UNCHANGED <<chain, recents, db, signer, now, composers, aconfig, call, raceVars, verifyVars, mineVars,
                   batch, bpc, bi, pending, aborted, bans, recents0, db0>>

\* The caller closes the abort channel.
Abort ==
    /\ bpc \in {"running", "select"}
    /\ ~aborted
    /\ aborted' = TRUE
    /\ UNCHANGED <<chain, recents, db, signer, now, composers, aconfig, call, raceVars, verifyVars, mineVars,
                   batch, bpc, bi, pending, results, received, bans, recents0, db0>>

\* The batch is forgotten.
ForgetBatch ==
    /\ batch' = <<>>
    /\ bpc' = "none"
    /\ bi' = 1
    /\ pending' = "none"
    /\ results' = <<>>
    /\ received' = <<>>
    /\ aborted' = FALSE
    /\ bans' = Nil
    /\ recents0' = {}
    /\ db0' = {}

\* The number of headers at the start of the batch whose result the caller
\* has read as a success.
RECURSIVE AcceptedPrefix(_)
AcceptedPrefix(errs) ==
    IF errs = <<>> \/ Head(errs) # OK THEN 0 ELSE 1 + AcceptedPrefix(Tail(errs))

\* The goroutine has ended and the caller is done with the channel: the
\* chain takes in the headers accepted so far.
FinishBatch ==
    /\ bpc = "done"
    /\ results = <<>> \/ aborted
    /\ chain' = chain \o SubSeq(batch, 1, AcceptedPrefix(received))
    /\ ForgetBatch
    /\ UNCHANGED <<recents, db, signer, now, composers, aconfig, call, raceVars, verifyVars, mineVars>>

\* The process that panicked is started again: a fresh engine on the same
\* database.
Restart ==
    /\ bpc = "crashed"
    /\ recents' = {}
    /\ signer' = ZeroAddress
    /\ ForgetBatch
    /\ UNCHANGED <<chain, db, now, composers, aconfig, call, raceVars, verifyVars, mineVars>>

NextBatch ==
    \/ /\ bpc = "none"
       /\ recents = {}
       /\ \E headers \in Batches, ans \in GovAnswers : VerifyHeaders(headers, ans)
    \/ Produce
    \/ \E return \in BOOLEAN : Select(return)
    \/ Receive
    \/ Abort
    \/ FinishBatch
    \/ Restart
    \/ New

SpecBatch == Init /\ [][NextBatch]_vars

\* The goroutine of VerifyHeaders is scheduled whenever it can take a step:
\* the verification of the next header and the select.  Nothing is assumed
\* of the caller, who may never read and never abort.
SpecBatchLive ==
    /\ Init
    /\ [][NextBatch]_vars
    /\ WF_vars(Produce)
    /\ WF_vars(\E return \in BOOLEAN : Select(return))

(***************************************************************************)
(* Functions called on their own: the arguments are drawn when the model   *)
(* starts, the call stores what the function returns.                      *)
(***************************************************************************)
engineVars ==
    <<chain, recents, db, signer, now, composers, aconfig, verifyVars, mineVars, batchVars,
      raceVars>>

\* The defaults of package params.
AtmosTestEthereumRPCProvider == "testnet endpoint"
AtmosEthereumRPCProvider == "mainnet endpoint"
AtmosTestGovernanceAddress == Addr(2)
AtmosGovernanceAddress == Addr(3)

\* getEthereumApiEndpoint(config).
getEthereumApiEndpoint(config) ==
    IF config.EthereumApiEndpoint # ""
    THEN config.EthereumApiEndpoint
    ELSE IF config.EnableTestNet
    THEN AtmosTestEthereumRPCProvider
    ELSE AtmosEthereumRPCProvider

\* getGovernanceAddress(config).
getGovernanceAddress(config) ==
    IF config.EthereumApiEndpoint # ""
    THEN config.GovernanceAddress
    ELSE IF config.EnableTestNet
    THEN AtmosTestGovernanceAddress
    ELSE AtmosGovernanceAddress

\* Arguments of signersProbabilisticSelection: up to fifteen composers in
\* either order, the epoch of the engine or one of a hundred blocks, block
\* numbers over a dozen epochs.
SelectionInputs ==
    {[config |-> [Epoch |-> e], addresses |-> a, number |-> n] :
        e \in {Epoch, 100},
        a \in UNION {{Prefix(k), Reverse(Prefix(k))} :
                        k \in {1, NumAddr, numberOfSigners, numberOfSigners + 1, 15}},
        n \in 0..(12 * Epoch) \cup {100, 1000}}

\* Configurations of the governance client.
GovernanceConfigs ==
    {[EthereumApiEndpoint |-> ep, GovernanceAddress |-> g, EnableTestNet |-> tn] :
        ep \in {"", "own endpoint"}, g \in {ZeroAddress, Addr(1)}, tn \in BOOLEAN}

\* Arguments of Seal: the genesis block, or a block prepared on top of it or
\* of an unknown parent; any configured signer; a period of zero or not.
SealInputs ==
    {[config |-> [Period |-> p], txs |-> txs, header |-> h, signer |-> sgn,
      signOK |-> ok] :
        p \in {0, Period},
        txs \in 0..1,
        h \in {chain[1]} \cup
              {Hdr(1, ph, Period, dd, ZeroAddress,
                   Zeros(extraVanity) \o Zeros(extraSeal), 0, EmptyUncleHash) :
                  ph \in {Hash(chain[1]), ZeroHash}, dd \in {diffNoTurn, diffInTurn}},
        sgn \in Sealers,
        ok \in BOOLEAN}

\* BlockReward, in units of 10^15 wei.
BlockReward == 487

\* state.AddBalance(addr, amount).
AddBalance(state, a, amount) == [state EXCEPT ![a] = @ + amount]

\* accumulateRewards(a, state, header): the balances afterwards.
accumulateRewardsToSigner(state, header, sgn) == AddBalance(state, sgn, BlockReward)

accumulateRewards(state, header, sgn) ==
    AddBalance(state, rewarded(header, sgn), BlockReward)

\* Atmos.Finalize: the balances and the header afterwards.
finalize(header, state, sgn) ==
    [state |-> accumulateRewards(state, header, sgn),
     header |-> [header EXCEPT !.Root = StateRoot(rewarded(header, sgn)),
                               !.UncleHash = EmptyUncleHash]]

\* Arguments of Finalize: a header of block 1 sealed by a key, or with a seal
\* no key made, or with extra-data too short to hold a seal, its uncle hash
\* set or not; balances of nothing or one unit; any configured signer.
FinalizeInputs ==
    {[header |-> Hdr(1, Hash(chain[1]), Period, diffNoTurn, ZeroAddress, extra, 0, uncle),
      state |-> st, signer |-> sgn] :
        extra \in {Zeros(extraVanity) \o Sig(k) : k \in 0..2} \cup {Zeros(extraVanity)},
        uncle \in {EmptyUncleHash, "otherUncles"},
        st \in [0..NumAddr -> 0..1],
        sgn \in {ZeroAddress, Addr(1), Addr(3)}}

\* Atmos.CalcDifficulty(chain, time, parent): the difficulty, NoDifficulty for
\* the nil it returns when snapshot fails, and the two stores afterwards.
calcDifficulty(rc, d, parent, sgn, ans) ==
    With(snapshot(rc, d, parent.Number, Hash(parent), <<>>, ans), LAMBDA s :
        [err |-> s.err, recents |-> s.recents, db |-> s.db,
         difficulty |-> IF s.err # OK THEN NoDifficulty ELSE CalcDifficulty(s.snap, sgn)])

\* Arguments of CalcDifficulty: the genesis block, or a block 1 that is not
\* on the chain; any configured signer.
CalcDifficultyInputs ==
    {[parent |-> p, signer |-> sgn] :
        p \in {chain[1],
               Hdr(1, Hash(chain[1]), Period, diffNoTurn, ZeroAddress,
                   Zeros(extraVanity) \o Sig(1), 0, EmptyUncleHash)},
        sgn \in Sealers}

\* Arguments of VerifyHeader and VerifySeal: headers with no number or with
\* number 0, the genesis block among them, with one field in or out of
\* order, a parent that is on the chain or not and a seal no key made; a
\* sealed block 1.
GenesisFaults ==
    {<<"Number", 0>>, <<"Time", 1>>, <<"Coinbase", Addr(1)>>, <<"MixDigest", 1>>,
     <<"UncleHash", "otherUncles">>, <<"Difficulty", NoDifficulty>>,
     <<"Difficulty", 3>>, <<"ParentHash", Hash(chain[1])>>}
        \cup {<<"Extra", ex>> :
                 ex \in {Zeros(extraVanity - 1), Zeros(extraVanity + extraSeal - 1),
                         Zeros(extraVanity) \o <<0>> \o Sig(0),
                         Zeros(extraVanity) \o Sig(0),
                         Zeros(extraVanity) \o Sig(1)}}

GenesisHeaders ==
    {[chain[1] EXCEPT ![p[1]] = p[2]] : p \in GenesisFaults}

VerifyInputs ==
    {[header |-> h, parents |-> <<>>] :
        h \in GenesisHeaders
              \cup {[g EXCEPT !.Number = NoNumber] : g \in GenesisHeaders}
              \cup {Hdr(1, Hash(chain[1]), Period, dd, ZeroAddress,
                        Zeros(extraVanity) \o Sig(1), 0, EmptyUncleHash) :
                       dd \in {diffNoTurn, diffInTurn}}}

\* VerifySeal is handed headers that have a number and room for a seal.
VerifySealInputs ==
    {in \in VerifyInputs :
        in.header.Number # NoNumber /\ Len(in.header.Extra) >= extraSeal}

Called(op, in) == [op |-> op, in |-> in, done |-> FALSE, out |-> Nil]

InitCalls ==
    /\ InitEngine
    /\ now = 0
    /\ call \in {Called("signersProbabilisticSelection", in) : in \in SelectionInputs}
                \cup {Called("getGovernanceAddress", in) : in \in GovernanceConfigs}
                \cup {Called("Seal", in) : in \in SealInputs}
                \cup {Called("Finalize", in) : in \in FinalizeInputs}
                \cup {Called("CalcDifficulty", in) : in \in CalcDifficultyInputs}
                \cup {Called("VerifyHeader", in) : in \in VerifyInputs}
                \cup {Called("VerifySeal", in) : in \in VerifySealInputs}
    /\ threads = <<>>

CallSelection ==
    /\ call.op = "signersProbabilisticSelection"
    /\ ~call.done
    /\ call' = [call EXCEPT !.done = TRUE, !.out =
                    signersProbabilisticSelection(call.in.config, call.in.addresses,
                                                  call.in.number)]
    /\ UNCHANGED engineVars

CallGovernanceAddress ==
    /\ call.op = "getGovernanceAddress"
    /\ ~call.done
    /\ call' = [call EXCEPT !.done = TRUE, !.out =
                    [endpoint |-> getEthereumApiEndpoint(call.in),
                     address |-> getGovernanceAddress(call.in)]]
    /\ UNCHANGED engineVars

CallSeal ==
    /\ call.op = "Seal"
    /\ ~call.done
    /\ \E r \in {seal(call.in.config, call.in.txs, recents, db, call.in.header,
                       call.in.signer, call.in.signOK, now, 0,
                       [err |-> OK, addresses |-> composers])} :
        /\ call' = [call EXCEPT !.done = TRUE, !.out = r]
        /\ recents' = r.recents
        /\ db' = r.db
    /\ UNCHANGED <<chain, signer, now, composers, aconfig, verifyVars, mineVars, batchVars,
                   raceVars>>

CallFinalize ==
    /\ call.op = "Finalize"
    /\ ~call.done
    /\ call' = [call EXCEPT !.done = TRUE, !.out =
                    finalize(call.in.header, call.in.state, call.in.signer)]
    /\ UNCHANGED engineVars

CallCalcDifficulty ==
    /\ call.op = "CalcDifficulty"
    /\ ~call.done
    /\ \E r \in {calcDifficulty(recents, db, call.in.parent, call.in.signer,
                                 [err |-> OK, addresses |-> composers])} :
        /\ call' = [call EXCEPT !.done = TRUE, !.out = r]
        /\ recents' = r.recents
        /\ db' = r.db
    /\ UNCHANGED <<chain, signer, now, composers, aconfig, verifyVars, mineVars, batchVars,
                   raceVars>>

CallVerifyHeader ==
    /\ call.op = "VerifyHeader"
    /\ ~call.done
    /\ \E r \in {verifyHeader(recents, db, call.in.header, call.in.parents, now,
                               [err |-> OK, addresses |-> composers])} :
        /\ call' = [call EXCEPT !.done = TRUE, !.out = r]
        /\ recents' = r.recents
        /\ db' = r.db
    /\ UNCHANGED <<chain, signer, now, composers, aconfig, verifyVars, mineVars, batchVars,
                   raceVars>>

CallVerifySeal ==
    /\ call.op = "VerifySeal"
    /\ ~call.done
    /\ \E r \in {verifySeal(recents, db, call.in.header, <<>>,
                             [err |-> OK, addresses |-> composers])} :
        /\ call' = [call EXCEPT !.done = TRUE, !.out = r]
        /\ recents' = r.recents
        /\ db' = r.db
    /\ UNCHANGED <<chain, signer, now, composers, aconfig, verifyVars, mineVars, batchVars,
                   raceVars>>

NextCalls ==
    \/ CallVerifyHeader
    \/ CallVerifySeal
    \/ CallFinalize
    \/ CallCalcDifficulty
    \/ CallSelection
    \/ CallGovernanceAddress
    \/ CallSeal

SpecCalls == InitCalls /\ [][NextCalls]_vars

(***************************************************************************)
(* Authorize beside a call that reads the signing credentials.             *)
(***************************************************************************)
\* What these steps leave alone.
lockFrame ==
    <<chain, recents, db, now, composers, aconfig, verifyVars, mineVars, batchVars, call>>

\* sync.RWMutex: Lock waits for the writer and the readers to leave, RLock
\* for the writer.
CanLock(l) == ~l.writer /\ l.readers = 0
CanRLock(l) == ~l.writer

\* An address whose bytes are partly those of one address and partly those
\* of another.
TornAddress == NumAddr + 1

\* The calls that read a.signer, and whether they take a.lock to do so.
ReadPaths == {"Prepare", "CalcDifficulty", "accumulateRewards", "Seal"}
locksToRead(op) == op = "Seal"

\* The accounts and signing functions Authorize is called with.
AuthorizeArgs == {[signer |-> Addr(k), signFn |-> f] : k \in 1..2, f \in {"wallet", "keystore"}}

IdleAuthorize == [pc |-> "idle", signer |-> ZeroAddress, signFn |-> Nil]
IdleReader ==
    [pc |-> "idle", op |-> "none", held |-> FALSE, raced |-> FALSE,
     signer |-> ZeroAddress, signFn |-> Nil]

InitLock ==
    /\ InitEngine
    /\ now = 0
    /\ call = Nil
    /\ threads = [authorize |-> IdleAuthorize, reader |-> IdleReader]

\* Authorize: a.lock.Lock().
AuthorizeLock(args) ==
    /\ threads.authorize.pc = "idle"
    /\ CanLock(lock)
    /\ lock' = [lock EXCEPT !.writer = TRUE]
    /\ threads' = [threads EXCEPT !.authorize =
                       [pc |-> "locked", signer |-> args.signer, signFn |-> args.signFn]]
    /\ UNCHANGED <<signer, signFn, lockFrame>>

\* Authorize: a.signer = signer.
AuthorizeSigner ==
    /\ threads.authorize.pc = "locked"
    /\ signer' = threads.authorize.signer
    /\ threads' = [threads EXCEPT !.authorize.pc = "signer"]
    /\ UNCHANGED <<lock, signFn, lockFrame>>

\* Authorize: a.signFn = signFn.
AuthorizeSignFn ==
    /\ threads.authorize.pc = "signer"
    /\ signFn' = threads.authorize.signFn
    /\ threads' = [threads EXCEPT !.authorize.pc = "signFn"]
    /\ UNCHANGED <<lock, signer, lockFrame>>

\* Authorize: the deferred a.lock.Unlock().
AuthorizeUnlock ==
    /\ threads.authorize.pc = "signFn"
    /\ lock' = [lock EXCEPT !.writer = FALSE]
    /\ threads' = [threads EXCEPT !.authorize = IdleAuthorize]
    /\ UNCHANGED <<signer, signFn, lockFrame>>

\* A call that reads the credentials starts, the one before has returned.
Enter(op) ==
    /\ threads.reader.pc \in {"idle", "done"}
    /\ threads' = [threads EXCEPT !.reader = [IdleReader EXCEPT !.pc = "start", !.op = op]]
    /\ UNCHANGED <<lock, signer, signFn, lockFrame>>

\* Seal: a.lock.RLock().
RLock ==
    /\ threads.reader.pc = "start"
    /\ locksToRead(threads.reader.op)
    /\ CanRLock(lock)
    /\ lock' = [lock EXCEPT !.readers = @ + 1]
    /\ threads' = [threads EXCEPT !.reader.pc = "read", !.reader.held = TRUE]
    /\ UNCHANGED <<signer, signFn, lockFrame>>

\* What a read of a.signer can give: the field, or, when Authorize is inside
\* its critical section and the reader holds no lock, the old address, the
\* new one or a mix of both.
readSigner(held, l, old, new) ==
    IF l.writer /\ ~held THEN {old, new, TornAddress} ELSE {old}

\* The read of a.signer (and of a.signFn in Seal).
ReadCredentials ==
    /\ \/ threads.reader.pc = "read"
       \/ threads.reader.pc = "start" /\ ~locksToRead(threads.reader.op)
    /\ \E s \in readSigner(threads.reader.held, lock, signer, threads.authorize.signer) :
           threads' = [threads EXCEPT
                          !.reader.pc = IF threads.reader.held THEN "unlock" ELSE "done",
                          !.reader.raced = lock.writer,
                          !.reader.signer = s,
                          !.reader.signFn = IF threads.reader.op = "Seal" THEN signFn ELSE Nil]
    /\ UNCHANGED <<lock, signer, signFn, lockFrame>>

\* Seal: a.lock.RUnlock().
RUnlock ==
    /\ threads.reader.pc = "unlock"
    /\ lock' = [lock EXCEPT !.readers = @ - 1]
    /\ threads' = [threads EXCEPT !.reader.pc = "done"]
    /\ UNCHANGED <<signer, signFn, lockFrame>>

NextLock ==
    \/ \E args \in AuthorizeArgs : AuthorizeLock(args)
    \/ AuthorizeSigner
    \/ AuthorizeSignFn
    \/ AuthorizeUnlock
    \/ \E op \in ReadPaths : Enter(op)
    \/ RLock
    \/ ReadCredentials
    \/ RUnlock

SpecLock == InitLock /\ [][NextLock]_vars

(***************************************************************************)
(* snapshot and verifyHeader called with parents, on a chain that grows.   *)
(***************************************************************************)
\* A header that differs from h in its mix digest only, hence in its hash.
Twin(h) == [h EXCEPT !.MixDigest = 1]

\* How headers off the chain are made: by the second key, out of turn.
WalkMakes == {[k |-> 2, dd |-> diffNoTurn, mix |-> 0]}

\* Headers that claim height n: the block of the chain and its twin,
\* children of block n - 1 made by the second key, and above height 1 a
\* header whose parent hash names the genesis block.
ClaimantsAt(n) ==
    (IF n \in 0..(Len(chain) - 1) THEN {chain[n + 1], Twin(chain[n + 1])} ELSE {})
        \cup (IF n \in 1..Len(chain)
              THEN {Child(chain[n], c) : c \in WalkMakes}
              ELSE {})
        \cup (IF n \in 2..Len(chain)
              THEN {Hdr(n, Hash(chain[1]), n * Period, diffNoTurn, ZeroAddress,
                        Zeros(extraVanity) \o Sig(1), 0, EmptyUncleHash)}
              ELSE {})

\* The parents slices handed in for height n: none, or one header that
\* claims height n, or the block of the chain below it.
ParentsAt(n) ==
    {<<>>} \cup {<<y>> : y \in ClaimantsAt(n)}
           \cup (IF n \in 1..Len(chain) THEN {<<chain[n]>>} ELSE {})

\* Arguments of snapshot.
SnapshotInputs ==
    UNION {{[number |-> n, hash |-> Hash(x), parents |-> ps] :
               x \in ClaimantsAt(n), ps \in ParentsAt(n)} : n \in 0..Len(chain)}

\* Arguments of verifyHeader: a header made by the first key on top of a
\* header that claims height n - 1, its mix digest zero or not.
WalkVerifyInputs ==
    UNION {{[header |-> Child(p, [k |-> 1, dd |-> diffNoTurn, mix |-> mix]),
             parents |-> ps] :
               p \in ClaimantsAt(n - 1), ps \in ParentsAt(n - 1), mix \in 0..1} :
           n \in 1..Len(chain)}

InitWalk ==
    /\ InitEngine
    /\ now = MaxTime
    /\ call = Nil
    /\ threads = <<>>

\* The chain verifies the next block and takes it in.
Grow(h) ==
    /\ call = Nil
    /\ Len(chain) <= MaxHeight - 1
    /\ \E r \in {verifyHeader(recents, db, h, <<>>, now,
                               [err |-> OK, addresses |-> composers])} :
        /\ r.err = OK
        /\ recents' = r.recents
        /\ db' = r.db
        /\ chain' = Append(chain, h)
    /\ UNCHANGED <<signer, now, composers, aconfig, call, raceVars, verifyVars, mineVars,
                   batchVars>>

\* The engine is handed a call.
Ask(c) ==
    /\ call = Nil
    /\ call' = c
    /\ UNCHANGED engineVars

\* Atmos.snapshot(chain, number, hash, parents).
CallSnapshot(ans) ==
    /\ call # Nil
    /\ call.op = "snapshot"
    /\ ~call.done
    /\ \E r \in {snapshot(recents, db, call.in.number, call.in.hash, call.in.parents,
                           ans)} :
        /\ call' = [call EXCEPT !.done = TRUE, !.out = r]
        /\ recents' = r.recents
        /\ db' = r.db
    /\ UNCHANGED <<chain, signer, now, composers, aconfig, verifyVars, mineVars, batchVars,
                   raceVars>>

NextWalk ==
    \/ \E h \in {c \in SealCands : Len(c.Extra) = extraVanity + extraSeal
                                     \/ c.Number % aconfig.Epoch = 0} : Grow(h)
    \/ \E in \in SnapshotInputs : Ask(Called("snapshot", in))
    \/ \E in \in WalkVerifyInputs : Ask(Called("VerifyHeader", in))
    \/ \E ans \in GovAnswers : CallSnapshot(ans)
    \/ call # Nil /\ CallVerifyHeader
    \/ call = Nil /\ New

SpecWalk == InitWalk /\ [][NextWalk]_vars

(***************************************************************************)
(* Prepare called on headers with any extra-data, and again on the header  *)
(* it left, on a chain that grows.                                         *)
(***************************************************************************)
\* The extra-data the miner hands in: none, shorter than the vanity, the
\* vanity exactly, and longer than the vanity.
PrepareExtras ==
    {<<>>, <<7, 8>>, [i \in 1..extraVanity |-> i], [i \in 1..(extraVanity + 2) |-> i + 1]}

\* Arguments of Prepare: a header for the next height with fields Prepare
\* overwrites.
PrepareInputs ==
    {[header |-> Hdr(Len(chain), Hash(head), 0, NoDifficulty, Addr(1), ex, 1,
                     EmptyUncleHash)] : ex \in PrepareExtras}

\* Atmos.Prepare(chain, header).
CallPrepare(ans) ==
    /\ call # Nil
    /\ call.op \in {"Prepare", "PrepareAgain"}
    /\ ~call.done
    /\ \E r \in {prepare(recents, db, call.in.header, signer, now, ans)} :
        /\ call' = [call EXCEPT !.done = TRUE, !.out = r]
        /\ recents' = r.recents
        /\ db' = r.db
    /\ UNCHANGED <<chain, signer, now, composers, aconfig, verifyVars, mineVars,
                   batchVars, raceVars>>

\* The miner hands the header Prepare left to Prepare once more.
PrepareAgain ==
    /\ call # Nil
    /\ call.op = "Prepare"
    /\ call.done
    /\ call.out.err = OK
    /\ call' = Called("PrepareAgain", [header |-> call.out.header])
    /\ UNCHANGED engineVars

NextPrepare ==
    \/ \E h \in {c \in SealCands : Len(c.Extra) = extraVanity + extraSeal
                                     \/ c.Number % aconfig.Epoch = 0} : Grow(h)
    \/ \E in \in PrepareInputs : Ask(Called("Prepare", in))
    \/ \E ans \in GovAnswers : CallPrepare(ans)
    \/ PrepareAgain

SpecPrepare == InitWalk /\ [][NextPrepare]_vars

(***************************************************************************)
(* The snapshot of one checkpoint block on nodes with different local      *)
(* data.                                                                   *)
(***************************************************************************)
\* The checkpoint blocks of the chain above the genesis.
Checkpoints == {n \in 1..(Len(chain) - 1) : n % aconfig.Epoch = 0}

\* Atmos.snapshot(chain, number, hash, nil) for a checkpoint block of the
\* chain on three nodes.  `full` is this node: it has every header.  `light`
\* has an empty cache and database and lacks the header number-1, so the
\* loop takes the checkpoint as trusted at once and no header is applied.
\* `synced` has the
\* database `light` left, an empty cache and every header, so it loads the
\* persisted snapshot.
CallOnNodes(ans) ==
    /\ call # Nil
    /\ call.op = "nodes"
    /\ ~call.done
    /\ \E r \in {snapshot(recents, db, call.in.number, call.in.hash, <<>>, ans)} :
       \E l \in {trustedCheckpoint({}, call.in.number, <<>>)} :
        /\ call' = [call EXCEPT !.done = TRUE,
                                !.out = [full |-> r,
                                         light |-> l,
                                         synced |-> snapshot({}, l.db, call.in.number,
                                                             call.in.hash, <<>>, ans)]]
        /\ recents' = r.recents
        /\ db' = r.db
    /\ UNCHANGED <<chain, signer, now, composers, aconfig, verifyVars, mineVars,
                   batchVars, raceVars>>

\* The node is done with the call.
Return ==
    /\ call # Nil
    /\ call.done
    /\ call' = Nil
    /\ UNCHANGED engineVars

NextNodes ==
    \/ \E h \in {c \in SealCands : Len(c.Extra) = extraVanity + extraSeal
                                     \/ c.Number % aconfig.Epoch = 0} : Grow(h)
    \/ \E n \in Checkpoints :
          Ask(Called("nodes", [number |-> n, hash |-> Hash(chain[n + 1])]))
    \/ \E ans \in GovAnswers : CallOnNodes(ans)
    \/ Return
    \/ call = Nil /\ New

\* The contract may hold the very list of the genesis block.
InitNodes ==
    /\ InitEngineWith(GenesisSizes, GovLists \cup {Prefix(NumAddr)})
    /\ now = MaxTime
    /\ call = Nil
    /\ threads = <<>>

SpecNodes == InitNodes /\ [][NextNodes]_vars

(***************************************************************************)
(* Two callers of Atmos.snapshot at once.  The engine holds no lock in     *)
(* snapshot: a.recents and a.db serialise each of their own operations,    *)
(* and every pass of the loop reads them as the other caller left them.    *)
(***************************************************************************)
\* One pass of the loop of Atmos.snapshot: the snapshot to start from is
\* found ("apply"), the call returns an error ("return"), or a header is
\* gathered and the loop goes on one block below ("loop").
snapshotPass(rc, d, number, hash, parents, headers, ans) ==
    LET leave(pc, err, snap, dd) ==
            [pc |-> pc, err |-> err, snap |-> snap, db |-> dd, number |-> number,
             hash |-> hash, parents |-> parents, headers |-> headers]
    IN  IF cacheGet(rc, hash) # Nil
        THEN leave("apply", OK, cacheGet(rc, hash), d)
        ELSE IF /\ \/ number = 0
                   \/ /\ number % aconfig.Epoch = 0
                      /\ \/ Len(headers) > ImmutabilityThreshold
                         \/ GetHeaderByNumber(number - 1) = Nil
                /\ GetHeaderByNumber(number) # Nil
        THEN LET checkpoint == GetHeaderByNumber(number)
                 snap == newSnapshot(number, Hash(checkpoint),
                                     ExtraSigners(checkpoint.Extra))
             IN  leave("apply", OK, snap, store(d, snap))
        ELSE IF number % aconfig.Epoch = 0
        THEN IF loadSnapshot(d, hash) # Nil
             THEN leave("apply", OK, loadSnapshot(d, hash), d)
             ELSE With(getComposers(number, parents, ans),
                       LAMBDA g :
                      IF g.err # OK
                      THEN leave("return", g.err, Nil, d)
                      ELSE IF Len(g.addresses) = 0
                      THEN leave("return", "errInvalidNumberOfSigners", Nil, d)
                      ELSE leave("apply", OK, newSnapshot(number, hash, g.addresses), d))
        ELSE IF Len(parents) > 0
        THEN LET header == parents[Len(parents)]
             IN  IF Hash(header) # hash \/ header.Number # number
                 THEN leave("return", "ErrUnknownAncestor", Nil, d)
                 ELSE [pc |-> "loop", err |-> OK, snap |-> Nil, db |-> d,
                       number |-> number - 1, hash |-> header.ParentHash,
                       parents |-> SubSeq(parents, 1, Len(parents) - 1),
                       headers |-> Append(headers, header)]
        ELSE LET header == GetHeader(hash, number)
             IN  IF header = Nil
                 THEN leave("return", "ErrUnknownAncestor", Nil, d)
                 ELSE [pc |-> "loop", err |-> OK, snap |-> Nil, db |-> d,
                       number |-> number - 1, hash |-> header.ParentHash,
                       parents |-> parents,
                       headers |-> Append(headers, header)]

\* The callers.
Callers == 1..2

\* A caller that is in no call.
IdleCaller == [pc |-> "idle"]

\* What both callers ask for, and what the governance contract answers.
PairInputs ==
    UNION {UNION {{[number |-> n, hash |-> Hash(x), parents |-> ps, ans |-> ans] :
                      ps \in {<<>>, <<x>>}, ans \in GovAnswers} :
                  x \in ClaimantsAt(n)} :
           n \in 0..Len(chain)}

InitPair ==
    /\ InitEngine
    /\ now = MaxTime
    /\ call = Nil
    /\ threads = [t \in Callers |-> IdleCaller]

\* Both callers enter snapshot(chain, number, hash, parents).
AskBoth(in) ==
    /\ call = Nil
    /\ call' = Called("snapshot", in)
    /\ threads' = [t \in Callers |->
                      [pc |-> "loop", err |-> OK, snap |-> Nil, number |-> in.number,
                       hash |-> in.hash, parents |-> in.parents, headers |-> <<>>]]
    /\ UNCHANGED <<chain, recents, db, signer, now, composers, aconfig, lock, signFn,
                   verifyVars, mineVars, batchVars>>

\* A caller makes one pass of the loop.
Pass(t) ==
    /\ call # Nil
    /\ threads[t].pc = "loop"
    /\ \E p \in {snapshotPass(recents, db, threads[t].number, threads[t].hash,
                               threads[t].parents, threads[t].headers, call.in.ans)} :
        /\ db' = p.db
        /\ threads' = [threads EXCEPT ![t] =
                          [pc |-> IF p.pc = "return" THEN "done" ELSE p.pc,
                           err |-> p.err, snap |-> p.snap, number |-> p.number,
                           hash |-> p.hash, parents |-> p.parents,
                           headers |-> p.headers]]
    /\ UNCHANGED <<chain, recents, signer, now, composers, aconfig, call, lock, signFn,
                   verifyVars, mineVars, batchVars>>

\* A caller applies the headers it gathered and adds the result to
\* a.recents.
ApplyAdd(t) ==
    /\ call # Nil
    /\ threads[t].pc = "apply"
    /\ \E r \in {apply(threads[t].snap, Reverse(threads[t].headers))} :
        /\ threads' = [threads EXCEPT ![t].pc = "done", ![t].err = r.err,
                                      ![t].snap = IF r.err = OK THEN r.snap ELSE Nil]
        /\ recents' = IF r.err = OK THEN cacheAdd(recents, r.snap) ELSE recents
        /\ db' = IF /\ r.err = OK
                    /\ r.snap.Number % aconfig.Epoch = 0
                    /\ Len(threads[t].headers) > 0
                 THEN store(db, r.snap)
                 ELSE db
    /\ UNCHANGED <<chain, signer, now, composers, aconfig, call, lock, signFn, verifyVars,
                   mineVars, batchVars>>

NextPair ==
    \/ /\ threads = [t \in Callers |-> IdleCaller]
       /\ \E h \in {c \in SealCands : Len(c.Extra) = extraVanity + extraSeal
                                        \/ c.Number % aconfig.Epoch = 0} : Grow(h)
    \/ \E in \in PairInputs : AskBoth(in)
    \/ \E t \in Callers : Pass(t)
    \/ \E t \in Callers : ApplyAdd(t)

SpecPair == InitPair /\ [][NextPair]_vars

(***************************************************************************)
(* A snapshot is created and headers are applied to it one after another,  *)
(* on a chain with checkpoints far enough apart for recent signers to be   *)
(* pruned.                                                                 *)
(***************************************************************************)
\* Blocks per epoch of that chain, and the number of the last block applied.
LongEpoch == 5

MaxApply == 6

\* The headers offered to a snapshot: of the next number or the one after
\* it, signed by any key, of either difficulty, with the signer list a
\* checkpoint carries.
ApplyCands(snap) ==
    {Hdr(n, snap.Hash, n * Period, dd, ZeroAddress,
         Zeros(extraVanity)
             \o (IF n % LongEpoch = 0 THEN ListBytes(Prefix(k)) ELSE <<>>)
             \o Sig(s),
         0, EmptyUncleHash) :
        n \in {snap.Number + 1, snap.Number + 2}, dd \in {diffNoTurn, diffInTurn},
        s \in Addresses, k \in {1, NumAddr}}

InitApply ==
    /\ InitEngine
    /\ now = MaxTime
    /\ call = Nil
    /\ threads = <<>>

\* newSnapshot(config, sigcache, 0, hash, signers).
Create(k) ==
    /\ call = Nil
    /\ call' = [op |-> "apply", in |-> Nil, done |-> TRUE,
                out |-> [err |-> OK,
                         snap |-> newSnapshot(0, Hash(chain[1]), Prefix(k))]]
    /\ UNCHANGED engineVars

\* Snapshot.apply of one more header; after a failure the snapshot it was
\* called on is the one that goes on.
ApplyNext(h) ==
    /\ call # Nil
    /\ call.op = "apply"
    /\ call.out.snap.Number < MaxApply
    /\ call' = [op |-> "apply", in |-> h, done |-> TRUE,
                out |-> applyOneAt(LongEpoch, call.out.snap, h)]
    /\ UNCHANGED engineVars

NextApply ==
    \/ \E k \in 1..NumAddr : Create(k)
    \/ /\ call # Nil
       /\ \E h \in ApplyCands(call.out.snap) : ApplyNext(h)

SpecApply == InitApply /\ [][NextApply]_vars

(***************************************************************************)
(* snapshot on any genesis block the node may be started with: the signer  *)
(* list between vanity and seal may hold no address at all.                *)
(***************************************************************************)
\* The sizes of the signer list of a genesis block, the empty list included.
AnyGenesisSizes == GenesisSizes \cup {0}

InitAnyGenesis ==
    /\ InitEngineOn(AnyGenesisSizes)
    /\ now = MaxTime
    /\ call = Nil
    /\ threads = [t \in Callers |-> IdleCaller]

SpecAnyGenesis == InitAnyGenesis /\ [][NextPair]_vars

(***************************************************************************)
(* Properties of header verification.                                      *)
(***************************************************************************)
\* The address recovered from the seal of the header the last call judged.
recovered == ecrecover(lastHeader)

\* The last call was a verification of a header above genesis.
verified ==
    /\ lastOp \in {"VerifyHeader", "VerifySeal"}
    /\ lastHeader.Number > 0

\* The last call obtained the parent snapshot and recovered a signer.
sealReached ==
    /\ verified
    /\ lastSnap # Nil
    /\ lastErr # "errMismatchingCheckpointSigners"
    /\ recovered.err = OK

\* len(Signers)/2 + 1, over the integers.
WindowOf(S) == (Cardinality(S) \div 2) + 1

\* The errors verifyHeader returns before it looks at the difficulty.
StandaloneErrors ==
    {"errUnknownBlock", "ErrFutureBlock", "errInvalidCheckpointBeneficiary",
     "errMissingVanity", "errMissingSignature", "errExtraSigners",
     "errInvalidCheckpointSigners", "errInvalidMixDigest", "errInvalidUncleHash"}

\* A step in which VerifyHeader judges a header.
VerifyHeaderStep == lastOp = "none" /\ lastOp' = "VerifyHeader"

\* C1: a header above genesis that VerifyHeader or VerifySeal accepts was
\* sealed by a member of Signers of the snapshot materialised for its parent;
\* a recovered address outside that set makes the result UnauthorizedSigner.
C1_SignerIsAuthorised ==
    /\ (verified /\ lastErr = OK) =>
            /\ lastSnap # Nil
            /\ recovered.err = OK
            /\ recovered.addr \in lastSnap.Signers
    /\ (sealReached /\ recovered.addr \notin lastSnap.Signers) =>
            lastErr = "errUnauthorizedSigner"

\* An accepted header under a signer set that leaves some key out.
C1_Witness ==
    /\ verified
    /\ lastErr = OK
    /\ Cardinality(lastSnap.Signers) < NumAddr

\* C2: VerifySeal on a header of an authorised signer fails with
\* RecentlySigned exactly when the parent snapshot's Recents holds (seen,
\* signer) with seen > number - (len(Signers)/2 + 1) over the integers, at
\* every height.
C2_RecentlySignedOverIntegers ==
    (/\ lastOp = "VerifySeal"
     /\ sealReached
     /\ recovered.addr \in lastSnap.Signers) =>
        (lastErr = "errRecentlySigned" <=>
            \E e \in lastSnap.Recents :
                /\ e[2] = recovered.addr
                /\ e[1] > lastHeader.Number - WindowOf(lastSnap.Signers))

\* C3: when VerifyHeader accepts the next block of a chain of accepted
\* blocks, its signer sealed none of the blocks that share a window of
\* len(signers)/2 + 1 consecutive numbers with it.
C3_NoSignerTwiceInWindow ==
    (/\ lastOp = "VerifyHeader"
     /\ lastErr = OK
     /\ lastHeader.Number = Len(chain)) =>
        \A i \in 1..(Len(chain) - 1) :
            lastHeader.Number - i < WindowOf(lastSnap.Signers) =>
                ecrecover(chain[i + 1]).addr # recovered.addr

\* The signer whose turn it is at a height: the entry at index number mod len
\* of the signers in ascending order.
InTurnSigner(S, number) ==
    CHOOSE a \in S : Cardinality({b \in S : b < a}) = number % Cardinality(S)

\* C4: the seal check accepts a header only with difficulty 2 for the signer
\* in turn and difficulty 1 for any other; every other pairing fails with
\* WrongDifficulty.
C4_DifficultyMatchesTurn ==
    (/\ sealReached
     /\ recovered.addr \in lastSnap.Signers
     /\ lastErr # "errRecentlySigned") =>
        LET expected == IF InTurnSigner(lastSnap.Signers, lastHeader.Number)
                                = recovered.addr
                        THEN 2 ELSE 1
        IN  lastErr = IF lastHeader.Difficulty = expected
                      THEN OK ELSE "errWrongDifficulty"

\* The signer in turn sealed with the difficulty of a signer out of turn.
C4_Witness ==
    /\ lastOp = "VerifySeal"
    /\ lastErr = "errWrongDifficulty"
    /\ lastHeader.Difficulty = 1
    /\ Cardinality(lastSnap.Signers) > 1

\* The bytes of a set of addresses in ascending order.
RECURSIVE AscendingBytes(_)
AscendingBytes(S) ==
    IF S = {}
    THEN <<>>
    ELSE LET least == CHOOSE a \in S : \A b \in S : a <= b
         IN  AddrBytes(least) \o AscendingBytes(S \ {least})

\* Extra[32 : len-65]
SignerSegment(extra) == SubSeq(extra, extraVanity + 1, Len(extra) - extraSeal)

\* C5: a header at a multiple of Epoch above genesis passes the checkpoint
\* check only if Extra[32 : len-65] is the parent snapshot's Signers in
\* ascending order; any difference yields MismatchingCheckpointSigners.
C5_CheckpointSignersMatch ==
    (/\ lastOp = "VerifyHeader"
     /\ lastHeader.Number > 0
     /\ lastHeader.Number % aconfig.Epoch = 0) =>
        /\ lastErr = OK => lastSnap # Nil
        /\ lastSnap # Nil =>
                (lastErr = "errMismatchingCheckpointSigners" <=>
                    SignerSegment(lastHeader.Extra) # AscendingBytes(lastSnap.Signers))

\* A checkpoint header that lists the right addresses in another order.
C5_Witness ==
    /\ lastOp = "VerifyHeader"
    /\ lastErr = "errMismatchingCheckpointSigners"
    /\ Cardinality(lastSnap.Signers) > 1
    /\ LET listed == ExtraSigners(lastHeader.Extra)
       IN  {listed[i] : i \in DOMAIN listed} = lastSnap.Signers

\* C6: a header above genesis that VerifyHeader accepts is at least Period
\* after the parent it was checked against; one that is closer fails with
\* InvalidTimestamp; one whose parent is unknown fails before any snapshot is
\* requested.
C6_PeriodRespected ==
    [][VerifyHeaderStep /\ lastHeader'.Number > 0 =>
        LET h == lastHeader'
            parent == GetHeader(h.ParentHash, h.Number - 1)
        IN  /\ lastErr' = OK =>
                    parent # Nil /\ parent.Time + Period <= h.Time
            /\ (parent # Nil /\ parent.Time + Period > h.Time) =>
                    lastErr' \in StandaloneErrors
                        \cup {"errInvalidDifficulty", "ErrInvalidTimestamp"}
            /\ parent = Nil =>
                    /\ lastErr' \in StandaloneErrors
                            \cup {"errInvalidDifficulty", "ErrUnknownAncestor"}
                    /\ lastSnap' = Nil
                    /\ recents' = recents
                    /\ db' = db]_vars

\* A header sealed by a known key, closer to its parent than Period.
C6_Witness ==
    /\ lastOp = "VerifyHeader"
    /\ lastErr = "ErrInvalidTimestamp"
    /\ recovered.err = OK

\* C7: a header above genesis that VerifyHeader accepts has difficulty 1 or
\* 2; a missing or any other difficulty fails with InvalidDifficulty before
\* any parent or snapshot lookup.
C7_DifficultyOneOrTwo ==
    [][VerifyHeaderStep /\ lastHeader'.Number > 0 =>
        LET h == lastHeader'
        IN  /\ lastErr' = OK => h.Difficulty \in {1, 2}
            /\ h.Difficulty \notin {1, 2} =>
                    /\ lastErr' \in StandaloneErrors \cup {"errInvalidDifficulty"}
                    /\ lastSnap' = Nil
                    /\ recents' = recents
                    /\ db' = db]_vars

\* A header with a difficulty of 3 and an unknown parent.
C7_Witness ==
    /\ lastOp = "VerifyHeader"
    /\ lastErr = "errInvalidDifficulty"
    /\ lastHeader.Number > 0
    /\ lastHeader.Difficulty = 3
    /\ lastHeader.ParentHash = ZeroHash

(***************************************************************************)
(* Properties of mining.                                                   *)
(***************************************************************************)
\* C8: the block an engine prepares, finalises and seals with one and the
\* same authorised signer passes verifyHeader once its time has come.
C8_MinedBlockVerifies ==
    (mpc = "verified" /\ prepSigner = sealSigner) => lastErr = OK

\* A mined checkpoint block, with its list of several signers, was verified.
C8_Witness ==
    /\ mpc = "verified"
    /\ prepSigner = sealSigner
    /\ lastErr = OK
    /\ work.Number % aconfig.Epoch = 0
    /\ Cardinality(lastSnap.Signers) > 1

\* The header with other bytes in the place of its seal.
ReSealed(h, sig) ==
    [h EXCEPT !.Extra = SubSeq(h.Extra, 1, Len(h.Extra) - extraSeal) \o sig]

\* C9: headers that differ only in the last 65 bytes of Extra have the same
\* SealHash; the header Seal has copied the signature into has the SealHash
\* of the header that was signed.
C9_SealHashIgnoresSeal ==
    (work # Nil /\ Len(work.Extra) >= extraSeal) =>
        /\ \A k \in 0..NumAddr :
                SealHash(ReSealed(work, Sig(k))) = SealHash(work)
        /\ mpc \in {"sealed", "delivered", "verified"} =>
                SealHash(work) = signedHash

\* A sealed checkpoint header: its last 65 bytes are no longer the zeros it
\* was signed with.
C9_Witness ==
    /\ mpc = "sealed"
    /\ work.Number % aconfig.Epoch = 0
    /\ SubSeq(work.Extra, Len(work.Extra) - extraSeal + 1, Len(work.Extra))
            # Zeros(extraSeal)

(***************************************************************************)
(* Properties of batch verification.                                       *)
(***************************************************************************)
\* The outcome of verifying the k-th header of the batch with the headers
\* before it as parents, on the engine the batch was handed to.
Expected(k) ==
    verifyHeader(recents0, db0, batch[k], SubSeq(batch, 1, k - 1), now, bans).err

\* C10: the k-th value read from the results channel is the outcome of
\* verifying headers[k] with the headers before it as the parent hint;
\* what is sent and not yet read follows in the same order, nothing is
\* doubled and nothing left out.
C10_ResultsInInputOrder ==
    bpc # "none" =>
        /\ Len(received) + Len(results) = bi - 1
        /\ \A k \in 1..Len(received) : received[k] = Expected(k)
        /\ \A j \in 1..Len(results) : results[j] = Expected(Len(received) + j)

\* The caller has read three results that are not all the same.
C10_Witness ==
    /\ Len(received) >= 3
    /\ received[1] = OK
    /\ received[2] # OK
    /\ received[3] # received[2]

(***************************************************************************)
(* VerifyHeaders: the abort channel and the room of the results channel.   *)
(***************************************************************************)
\* C11: once the caller has closed the abort channel, no further result is
\* placed on the results channel.
C11_NoResultAfterAbort ==
    [][(aborted /\ aborted') =>
           Len(results') + Len(received') = Len(results) + Len(received)]_vars

\* C12: when the producer comes to its select the results channel has room,
\* whatever the caller has read, and every result of an earlier header is
\* already on the channel or read: the producer holds one result at most.
C12_ProducerNeverBlocked ==
    bpc = "select" =>
        /\ Len(results) < capacity(batch)
        /\ Len(results) + Len(received) = bi - 1

\* The producer is about to send the third result while the caller has read
\* none.
C12_Witness ==
    /\ bpc = "select"
    /\ bi = 3
    /\ received = <<>>
    /\ Len(results) = 2

(***************************************************************************)
(* Properties of the functions called on their own.                        *)
(***************************************************************************)
returned(op) == call.op = op /\ call.done

\* C13: the selection has m = min(len(addresses), 10) entries; entry i is
\* addresses[(start + i) mod len(addresses)] with start = (number / Epoch)
\* mod m.  Fifteen composers X0..X14 and an epoch of 100 blocks give X0..X9
\* at block 0, X1..X10 at block 100 and X0..X9 again at block 1000.
C13_SelectionIsShiftedWindow ==
    returned("signersProbabilisticSelection") =>
        LET a == call.in.addresses
            m == IF Len(a) < 10 THEN Len(a) ELSE 10
            start == (call.in.number \div call.in.config.Epoch) % m
        IN  /\ Len(call.out) = m
            /\ \A i \in 0..(m - 1) : call.out[i + 1] = a[((start + i) % Len(a)) + 1]
            /\ (Len(a) = 15 /\ call.in.config.Epoch = 100) =>
                   /\ call.in.number = 0 => call.out = SubSeq(a, 1, 10)
                   /\ call.in.number = 100 => call.out = SubSeq(a, 2, 11)
                   /\ call.in.number = 1000 => call.out = SubSeq(a, 1, 10)

\* The selection among fifteen composers at block 1000 of an epoch of 100.
C13_Witness ==
    /\ returned("signersProbabilisticSelection")
    /\ Len(call.in.addresses) = 15
    /\ call.in.config.Epoch = 100
    /\ call.in.number = 1000
    /\ Len(call.out) = 10

\* C16: the governance address is config.GovernanceAddress when that is
\* set, else the testnet or the mainnet default after EnableTestNet; whether
\* EthereumApiEndpoint is set plays no part.
C16_GovernanceAddressPrecedence ==
    returned("getGovernanceAddress") =>
        call.out.address =
            IF call.in.GovernanceAddress # ZeroAddress
            THEN call.in.GovernanceAddress
            ELSE IF call.in.EnableTestNet
            THEN AtmosTestGovernanceAddress
            ELSE AtmosGovernanceAddress

\* Seal came to call the signing function.
signFnCalled(r) == r.sealed \/ r.err = "errSign"

\* C18: Seal on block 0 returns errUnknownBlock; on a later block with a
\* period of zero and no transactions it returns nil; else, with a signer
\* that is not among the signers of the snapshot at (number-1, ParentHash),
\* it returns errUnauthorizedSigner.  In none of the three the signing
\* function is called or a block put on its way.
C18_SealRefusals ==
    returned("Seal") =>
        LET h == call.in.header
            paused == call.in.config.Period = 0 /\ call.in.txs = 0
            signers == {ExtraSigners(chain[1].Extra)[i] :
                            i \in DOMAIN ExtraSigners(chain[1].Extra)}
        IN  /\ h.Number = 0 =>
                /\ call.out.err = "errUnknownBlock"
                /\ ~signFnCalled(call.out)
            /\ (h.Number > 0 /\ paused) =>
                /\ call.out.err = OK
                /\ ~signFnCalled(call.out)
            /\ (h.Number = 1 /\ ~paused /\ h.ParentHash = Hash(chain[1])
                    /\ call.in.signer \notin signers) =>
                /\ call.out.err = "errUnauthorizedSigner"
                /\ ~signFnCalled(call.out)

\* Seal has refused a signer that the genesis block does not list, on a
\* block with transactions under a period of zero.
C18_Witness ==
    /\ returned("Seal")
    /\ call.in.header.Number = 1
    /\ call.in.config.Period = 0
    /\ call.in.txs = 1
    /\ call.in.signer # ZeroAddress
    /\ call.out.err = "errUnauthorizedSigner"

(***************************************************************************)
(* Properties of the snapshots built from the governance contract.         *)
(***************************************************************************)
\* C14: a snapshot of an epoch block above genesis has at most
\* numberOfSigners signers, however many composers the contract lists.
C14_AtMostTenSigners ==
    \A s \in recents \cup db :
        (s.Number > 0 /\ s.Number % aconfig.Epoch = 0) =>
            Cardinality(s.Signers) <= numberOfSigners

\* The walk back from the parent of the header ends at the governance
\* contract: no answer but the contract's can make it fail to dial.
governanceReached(rc, d, header) ==
    snapshotWalk(rc, d, header.Number - 1, header.ParentHash, <<>>, <<>>,
                 [err |-> "errDial", addresses |-> <<>>]).err = "errDial"

\* C15: when the snapshot for a header is built at an epoch block from an
\* empty composer list, the call returns errInvalidNumberOfSigners and
\* leaves the cache and the database as they were.
C15_EmptyListIsInvalidNumberOfSigners ==
    [][(/\ lastOp = "none"
        /\ lastOp' = "VerifySeal"
        /\ lastHeader'.Number > 0
        /\ governanceReached(recents, db, lastHeader')
        /\ composers = <<>>
        /\ lastErr' # "errDial")
       => (/\ lastErr' = "errInvalidNumberOfSigners"
           /\ recents' = recents
           /\ db' = db)]_vars

(***************************************************************************)
(* Properties of Seal and of its waiter.                                   *)
(***************************************************************************)
\* Seal was the last call and found its signer in the parent snapshot.
sealedBySigner ==
    /\ lastOp = "Seal"
    /\ lastSnap # Nil
    /\ sealSigner \in lastSnap.Signers

\* Seal returned nil with no block on its way.
sealSilent == lastErr = OK /\ mpc = "failed"

\* Seal called the signing function.
sealSigned ==
    \/ mpc \in {"sealed", "delivered", "dropped", "stopped"}
    \/ lastErr = "errSign"

Max(a, b) == IF a > b THEN a ELSE b

\* The waiter has put its block on the results channel and no stop came.
offered ==
    /\ mpc = "delivered"
    /\ stopAt = NoTime
    /\ Len(sink) = 1

C20_StopSuppressesResult ==
    /\ Len(sink) <= 1
    /\ mpc \in {"stopped", "dropped"} => sink = <<>>
    /\ (timer # Nil /\ stopAt # NoTime /\ stopAt - timer.start < timer.delay) =>
           sink = <<>>
    /\ mpc = "delivered" => (Len(sink) = 1 /\ sink[1].header = work)

\* The waiter ended on a stop that came before the delay was over.
C20_Witness ==
    /\ mpc = "stopped"
    /\ stopAt - timer.start < timer.delay
    /\ sink = <<>>

(***************************************************************************)
(* Properties of Finalize.                                                 *)
(***************************************************************************)
\* The address Finalize has to credit: the signer recovered from the seal,
\* the configured signer when none can be recovered.
beneficiary(in) ==
    IF ecrecover(in.header).err = OK THEN ecrecover(in.header).addr ELSE in.signer

C22_CredentialsReadUnderLock ==
    /\ threads.reader.pc \in {"unlock", "done"} =>
           (threads.reader.held /\ ~threads.reader.raced)
    /\ threads.authorize.pc \in {"locked", "signer", "signFn"} =>
           (lock.writer /\ lock.readers = 0)

(***************************************************************************)
(* Properties of CalcDifficulty.                                           *)
(***************************************************************************)
\* C23: CalcDifficulty returns 2 when the signer is in turn at
\* parent.Number + 1 in the snapshot of the parent and 1 otherwise, also for
\* a parent whose snapshot cannot be built.
C23_DifficultyAlwaysOneOrTwo ==
    returned("CalcDifficulty") =>
        /\ call.out.difficulty \in {diffNoTurn, diffInTurn}
        /\ call.out.difficulty = diffInTurn <=>
               /\ call.out.err = OK
               /\ inturn(cacheGet(recents, Hash(call.in.parent)),
                         call.in.parent.Number + 1, call.in.signer)

(***************************************************************************)
(* Properties of verification at and below genesis.                        *)
(***************************************************************************)
\* The checks verifyHeader makes on the header alone, for a block 0.
standaloneOnGenesis(h) ==
    /\ h.Time <= now
    /\ h.Coinbase = ZeroAddress
    /\ Len(h.Extra) >= extraVanity + extraSeal
    /\ (Len(h.Extra) - extraVanity - extraSeal) % AddressLength = 0
    /\ h.MixDigest = 0
    /\ h.UncleHash = EmptyUncleHash

\* C24: VerifySeal on a header with Number 0 returns errUnknownBlock;
\* verifyHeader on a header with no Number returns errUnknownBlock;
\* verifyHeader on a header with Number 0 that passes the standalone checks
\* returns nil and has looked for no parent, built no snapshot and recovered
\* no signer.
C24_GenesisAndMissingNumber ==
    /\ (returned("VerifySeal") /\ call.in.header.Number = 0) =>
           call.out.err = "errUnknownBlock"
    /\ (returned("VerifyHeader") /\ call.in.header.Number = NoNumber) =>
           call.out.err = "errUnknownBlock"
    /\ (/\ returned("VerifyHeader")
        /\ call.in.header.Number = 0
        /\ standaloneOnGenesis(call.in.header)) =>
           /\ call.out.err = OK
           /\ call.out.snap = Nil
           /\ recents = {}
           /\ db = {}

\* verifyHeader accepted a block 0 whose parent hash names a block and whose
\* seal no key made.
C24_Witness ==
    /\ returned("VerifyHeader")
    /\ call.in.header.Number = 0
    /\ call.in.header.ParentHash # ZeroHash
    /\ ecrecover(call.in.header).err # OK
    /\ call.out.err = OK

(***************************************************************************)
(* Properties of the resolution of parents.                                *)
(***************************************************************************)
\* A call of that name has returned.
walked(op) == call # Nil /\ call.op = op /\ call.done

\* The header (hash, number) cannot be resolved: the last entry of a parents
\* slice that is not empty is another header, or the slice is empty and the
\* chain has no such header.
unresolvedAt(number, hash, parents) ==
    IF parents # <<>>
    THEN ~(/\ parents[Len(parents)].Number = number
           /\ Hash(parents[Len(parents)]) = hash)
    ELSE ~\E i \in DOMAIN chain : chain[i].Number = number /\ Hash(chain[i]) = hash

\* The checks verifyHeader makes on the header alone.
standalonePasses(h) ==
    /\ h.Number # NoNumber
    /\ h.Time <= now
    /\ h.Number % aconfig.Epoch = 0 => h.Coinbase = ZeroAddress
    /\ Len(h.Extra) >= extraVanity + extraSeal
    /\ h.Number % aconfig.Epoch # 0 => Len(h.Extra) = extraVanity + extraSeal
    /\ (Len(h.Extra) - extraVanity - extraSeal) % AddressLength = 0
    /\ h.MixDigest = 0
    /\ h.UncleHash = EmptyUncleHash
    /\ h.Number > 0 => h.Difficulty \in {diffNoTurn, diffInTurn}

\* A step in which snapshot runs.
SnapshotStep ==
    /\ call # Nil
    /\ call.op = "snapshot"
    /\ ~call.done
    /\ call'.done

ExtraErrors ==
    {"errMissingVanity", "errMissingSignature", "errExtraSigners",
     "errInvalidCheckpointSigners"}

\* VerifyHeader has judged a header that has a number, is not from the
\* future and, on a checkpoint, names no beneficiary: the checks made before
\* the extra-data is looked at.
extraReached ==
    /\ lastOp = "VerifyHeader"
    /\ lastHeader.Number # NoNumber
    /\ lastHeader.Time <= now
    /\ lastHeader.Number % aconfig.Epoch = 0 => lastHeader.Coinbase = ZeroAddress

\* C26: with L the length of the extra-data, verifyHeader returns
\* MissingVanity for L < 32, MissingSignature for 32 <= L < 97, ExtraSigners
\* for L # 97 on a block that is no checkpoint, InvalidCheckpointSigners for
\* (L - 97) not a multiple of 20 on a checkpoint, and none of the four for
\* L = 97 on a block that is no checkpoint.
C26_ExtraLengthClasses ==
    extraReached =>
        LET L == Len(lastHeader.Extra)
            checkpoint == lastHeader.Number % aconfig.Epoch = 0
        IN  /\ L < 32 => lastErr = "errMissingVanity"
            /\ (32 <= L /\ L < 97) => lastErr = "errMissingSignature"
            /\ (L > 97 /\ ~checkpoint) => lastErr = "errExtraSigners"
            /\ (L > 97 /\ checkpoint /\ (L - 97) % 20 # 0) =>
                   lastErr = "errInvalidCheckpointSigners"
            /\ (L = 97 /\ ~checkpoint) => lastErr \notin ExtraErrors
            /\ (L >= 97 /\ checkpoint /\ (L - 97) % 20 = 0) =>
                   lastErr \notin ExtraErrors

\* VerifyHeader found the signer bytes of a checkpoint to be no multiple of
\* an address.
C26_Witness ==
    /\ extraReached
    /\ lastHeader.Number > 0
    /\ lastErr = "errInvalidCheckpointSigners"

(***************************************************************************)
(* Properties of two callers of snapshot at once.                          *)
(***************************************************************************)
\* Both callers have returned.
bothReturned ==
    /\ call # Nil
    /\ \A t \in Callers : threads[t].pc = "done"

\* The hash a.recents keeps the snapshot of the call under: the hash asked
\* for, and at block 0 the hash of the genesis block of the chain.
keyOfCall ==
    IF call.in.number = 0
    THEN Hash(chain[1])
    ELSE call.in.hash

applied(in, ans) ==
    LET w == snapshotWalk(recents, db, in.number, in.hash, in.parents, <<>>, ans)
    IN  IF w.err # OK
        THEN [err |-> OK, gathered |-> 0]
        ELSE [err |-> apply(w.snap, Reverse(w.headers)).err,
              gathered |-> Len(w.headers)]

\* The call of snapshot in progress gathers headers that cannot be applied.
applyFails ==
    /\ call # Nil
    /\ call.op = "snapshot"
    /\ ~call.done
    /\ \A ans \in GovAnswers : applied(call.in, ans).err # OK

\* C28: when the headers gathered by snapshot cannot be applied, snapshot
\* returns the error of the application and no snapshot, adds nothing to
\* a.recents, and every snapshot in a.recents keeps its Number, Hash,
\* Signers and Recents.
C28_RejectedBatchLeavesCache ==
    [][(SnapshotStep /\ applyFails)
        => /\ \E ans \in GovAnswers : call'.out.err = applied(call.in, ans).err
           /\ call'.out.err # OK
           /\ call'.out.snap = Nil
           /\ recents' = recents]_vars

\* snapshot returned the error of an application on a snapshot that
\* a.recents held, and a.recents still holds it.
C28_Witness ==
    /\ walked("snapshot")
    /\ call.out.err \in {"errUnauthorizedSigner", "errRecentlySigned",
                         "errInvalidVotingChain"}
    /\ recents # {}

(***************************************************************************)
(* Properties of the signer set of a snapshot.                             *)
(***************************************************************************)
\* The snapshots the callers of snapshot were handed.
returnedSnapshots ==
    {threads[t].snap : t \in {u \in Callers : /\ threads[u].pc = "done"
                                              /\ threads[u].err = OK}}

\* C29: every snapshot that snapshot returns, holds in a.recents or has
\* stored in a.db has at least one signer, whether it was built from the
\* genesis header, loaded from the database, built from the answer of the
\* governance contract or made by applying headers.
C29_SignersNeverEmpty ==
    \A s \in recents \cup db \cup returnedSnapshots : s.Signers # {}

(***************************************************************************)
(* Properties of the recent signers of a snapshot.                         *)
(***************************************************************************)
\* The snapshot that was created and has had headers applied to it.
grown == call.out.snap

\* No recent signer of the snapshot is older than its limit allows.
noStaleRecent ==
    \A e \in grown.Recents : ~(e[1] <= grown.Number - Limit(grown))

\* C30 (as stated): a snapshot made by creating one and applying ascending
\* headers holds at most len(Signers)/2 recent signers, none with a key
\* <= Number - (len(Signers)/2 + 1).
C30_RecentsAtMostHalf ==
    call # Nil =>
        /\ Cardinality(grown.Recents) <= Cardinality(grown.Signers) \div 2
        /\ noStaleRecent

\* C30 (amended): a snapshot made by creating one and applying ascending
\* headers holds at most len(Signers)/2 + 1 recent signers, none with a key
\* <= Number - (len(Signers)/2 + 1).
C30_RecentsAtMostLimit ==
    call # Nil =>
        /\ Cardinality(grown.Recents) <= Cardinality(grown.Signers) \div 2 + 1
        /\ noStaleRecent

\* Headers were applied until a recent signer had to be pruned, and the
\* snapshot holds as many recent signers as its limit.
C30_Witness ==
    /\ call # Nil
    /\ call.in # Nil
    /\ call.out.err = OK
    /\ Cardinality(grown.Signers) >= 3
    /\ grown.Number > Limit(grown)
    /\ Cardinality(grown.Recents) = Limit(grown)

(***************************************************************************)
(* Properties of a chain with a single signer.                             *)
(***************************************************************************)
\* The last call obtained a parent snapshot whose only signer is a.
soleSigner(a) ==
    /\ lastSnap # Nil
    /\ lastSnap.Signers = {a}

C32_EveryBlockCheckpoint ==
    /\ aconfig.Epoch = 1
    /\ (lastOp = "Prepare" /\ lastErr = OK) =>
           SignerSegment(work.Extra) = AscendingBytes(lastSnap.Signers)
    /\ (mpc = "verified" /\ prepSigner = sealSigner) =>
           /\ lastErr = OK
           /\ SignerSegment(work.Extra) = AscendingBytes(lastSnap.Signers)

\* A block above the first, whose parent snapshot came from the governance
\* contract, was prepared, sealed and verified with its list of signers.
C32_Witness ==
    /\ aconfig.Epoch = 1
    /\ mpc = "verified"
    /\ prepSigner = sealSigner
    /\ lastErr = OK
    /\ work.Number >= 2
    /\ Cardinality(lastSnap.Signers) > 1
    /\ Len(SignerSegment(work.Extra)) = AddressLength * Cardinality(lastSnap.Signers)

(***************************************************************************)
(* Properties of the header Prepare leaves.                                *)
(***************************************************************************)
\* The first n bytes of a byte string, with zeros where it is shorter.
FirstBytes(bytes, n) == [i \in 1..n |-> IF i <= Len(bytes) THEN bytes[i] ELSE 0]

\* Prepare has returned without error.
prepared == walked("Prepare") \/ walked("PrepareAgain")

onNodes ==
    /\ call # Nil
    /\ call.op = "nodes"
    /\ call.done
    /\ call.out.full.err = OK
    /\ call.out.light.err = OK
    /\ call.out.synced.err = OK

\* C34: for a checkpoint block (number, hash) the Signers of the snapshot do
\* not depend on the path that built it: the trusted checkpoint (list
\* embedded in the header), the persisted snapshot and the governance
\* contract give the same set, so nodes with different local data agree on
\* who may sign block number+1.
C34_SignersPathIndependent ==
    onNodes =>
        /\ call.out.light.snap.Signers = call.out.full.snap.Signers
        /\ call.out.synced.snap.Signers = call.out.full.snap.Signers

(***************************************************************************)
(* Properties of the snapshot of an epoch block.                           *)
(***************************************************************************)
\* C35: every snapshot that snapshot returns for a number that is a multiple
\* of Epoch has empty Recents, and so has every such snapshot it keeps; no
\* snapshot it returns or keeps records the signer of an epoch block as
\* recent.
C35_EpochSnapshotNoRecents ==
    /\ (walked("snapshot") /\ call.out.err = OK /\ call.in.number % aconfig.Epoch = 0)
           => call.out.snap.Recents = {}
    /\ \A s \in recents \cup db :
           /\ s.Number % aconfig.Epoch = 0 => s.Recents = {}
           /\ \A e \in s.Recents : e[1] % aconfig.Epoch # 0

\* snapshot returned the snapshot of the block after an epoch block that was
\* signed by one of at least three signers: the entry of the epoch block
\* would still be within the limit, and Recents holds the later block only.
C35_Witness ==
    /\ walked("snapshot")
    /\ call.out.err = OK
    /\ call.in.number = aconfig.Epoch + 1
    /\ Cardinality(call.out.snap.Signers) >= 3
    /\ ecrecover(chain[aconfig.Epoch + 1]).addr \in call.out.snap.Signers
    /\ {e[1] : e \in call.out.snap.Recents} = {aconfig.Epoch + 1}

(***************************************************************************)
(* Properties of the persisted snapshots.                                  *)
(***************************************************************************)
\* The contract cannot be reached.
Unreachable == [err |-> "errDial", addresses |-> <<>>]

\* C36: once snapshot has returned the snapshot of an epoch block, that
\* snapshot is in the database, and the same request on an empty cache is
\* served from it without a call to the governance contract.
C36_GovernanceSnapshotPersisted ==
    (walked("snapshot") /\ call.out.err = OK /\ call.in.number % aconfig.Epoch = 0) =>
        /\ \E s \in db : s.Hash = call.out.snap.Hash
        /\ snapshot({}, db, call.in.number, call.in.hash, call.in.parents,
                    Unreachable).err = OK

(***************************************************************************)
(* Properties of the snapshot returned for a requested block.              *)
(***************************************************************************)
\* C37: a snapshot that snapshot(chain, number, hash, parents) returns
\* without error has Number = number and Hash = hash and is in the cache
\* under the key hash, also when the checkpoint is taken as trusted and the
\* hash is not that of the chain's header at that number.
C37_ReturnedSnapshotIsRequested ==
    (walked("snapshot") /\ call.out.err = OK) =>
        /\ call.out.snap.Number = call.in.number
        /\ call.out.snap.Hash = call.in.hash
        /\ cacheGet(recents, call.in.hash) = call.out.snap

(***************************************************************************)
(* Properties of mining while the signer is replaced.                      *)
(***************************************************************************)
\* Seal has signed the header in `work`.
sealedWork == mpc \in {"sealed", "delivered", "verified"}

\* C38: every block Seal signs carries the difficulty of the turn of the
\* signer whose key signed it, also when Authorize replaced the signer
\* between Prepare and Seal; verification does not answer
\* errWrongDifficulty for it.
C38_SealedDifficultyMatchesSigner ==
    /\ sealedWork =>
           work.Difficulty = CalcDifficulty(snapshot(recents, db, work.Number - 1,
                                                     work.ParentHash, <<>>,
                                                     Unreachable).snap,
                                            ecrecover(work).addr)
    /\ mpc = "verified" => lastErr # "errWrongDifficulty"

\* C39: the address FinalizeAndAssemble credited on the unsealed header is
\* the address Finalize credits on the sealed block, the signer recovered
\* from it, so the state root the miner committed is the one a verifier
\* computes, also when Authorize is called between assembling and sealing.
C39_MinerCreditsSealer ==
    sealedWork =>
        /\ credited = rewarded(work, ZeroAddress)
        /\ work.Root = StateRoot(rewarded(work, ZeroAddress))

(***************************************************************************)
(* Termination of the goroutine of VerifyHeaders.                          *)
(***************************************************************************)
\* The number of results the goroutine has sent so far.
published == Len(results) + Len(received)

\* C40: when the caller never closes abort, the goroutine of VerifyHeaders
\* in the end has sent exactly len(headers) results and has ended, whether
\* or not the caller reads and whether or not headers fail; it never sends
\* more than len(headers) results.
C40_ProducerTerminates ==
    /\ [](published <= Len(batch))
    /\ (bpc = "running") ~> (aborted \/ (bpc = "done" /\ published = Len(batch)))

=============================================================================
